---- MODULE Spec2Model ----
(***************************************************************************)
(* A model of libbitcoin's script interpreter (src/src/script.cpp): the    *)
(* composed evaluation script::run(input_script, tx, i, bip16), the single *)
(* script execution script::run(tx, i), the dispatcher next_step with the  *)
(* per-opcode handlers, the boolean and numeric casts and parse_script.    *)
(*                                                                         *)
(* A data_chunk is a sequence of bytes (0..255); a data_stack is a         *)
(* sequence of data_chunks whose back() is its last element; an iterator   *)
(* into operations_ is an index 1..Len, and Len+1 is end().                *)
(***************************************************************************)
EXTENDS Integers, Sequences, FiniteSets, TLC

\* --------------------------------------------------------------------------
\* Bounds of the model
\* --------------------------------------------------------------------------

\* longest byte string given to cast_to_bool in SpecCast
MaxChunkLen == 3
\* longest free-form input script / output script of the composed run
MaxInLen == 2
MaxOutLen == 2
\* SpecRun: deepest preset stack, longest prefix run before the last operation
MaxStack == 2
MaxPrefix == 1

\* --------------------------------------------------------------------------
\* Opcodes (enum class opcode); the code of an operation is its byte value
\* --------------------------------------------------------------------------

opcode ==
    [ zero |-> 0, special |-> 1, pushdata1 |-> 76, pushdata2 |-> 77,
      pushdata4 |-> 78, negative_1 |-> 79, reserved |-> 80,
      op_1 |-> 81, op_2 |-> 82, op_3 |-> 83, op_4 |-> 84, op_5 |-> 85,
      op_6 |-> 86, op_7 |-> 87, op_8 |-> 88, op_9 |-> 89, op_10 |-> 90,
      op_11 |-> 91, op_12 |-> 92, op_13 |-> 93, op_14 |-> 94, op_15 |-> 95,
      op_16 |-> 96, nop |-> 97, ver |-> 98, if_ |-> 99, notif |-> 100,
      verif |-> 101, vernotif |-> 102, else_ |-> 103, endif |-> 104,
      verify |-> 105, return_ |-> 106, toaltstack |-> 107,
      fromaltstack |-> 108, ifdup |-> 115, depth |-> 116, drop |-> 117,
      dup |-> 118, nip |-> 119, over |-> 120, pick |-> 121, roll |-> 122,
      size |-> 130, equal |-> 135, equalverify |-> 136, reserved1 |-> 137,
      reserved2 |-> 138, not_ |-> 145, add |-> 147, boolor |-> 155,
      greaterthanorequal |-> 162, min |-> 163, sha256 |-> 168,
      hash160 |-> 169, codeseparator |-> 171, checksig |-> 172,
      checksigverify |-> 173, checkmultisig |-> 174,
      checkmultisigverify |-> 175, op_nop1 |-> 176, op_nop2 |-> 177,
      op_nop3 |-> 178, op_nop4 |-> 179, op_nop5 |-> 180, op_nop6 |-> 181,
      op_nop7 |-> 182, op_nop8 |-> 183, op_nop9 |-> 184, op_nop10 |-> 185,
      bad_operation |-> 186, raw_data |-> 187 ]

\* an operation: opcode and pushed data
Op(code, data) == [code |-> code, data |-> data]

\* --------------------------------------------------------------------------
\* Sequence helpers (std::vector)
\* --------------------------------------------------------------------------

back(s) == s[Len(s)]
pop_back(s) == SubSeq(s, 1, Len(s) - 1)
push_back(s, x) == Append(s, x)
\* erase the element at index i
erase(s, i) == SubSeq(s, 1, i - 1) \o SubSeq(s, i + 1, Len(s))
\* all sequences over S of length at most n
SeqUpTo(S, n) == UNION {[1..k -> S] : k \in 0..n}

\* --------------------------------------------------------------------------
\* Stack values and casts
\* --------------------------------------------------------------------------

stack_true_value == <<1>>
stack_false_value == <<>>

\* mutant of cast_to_bool: the negative-zero test is dropped
cast_to_bool_no_negzero(values) ==
    \E k \in 1..Len(values) : values[k] # 0

\* the loop of cast_to_bool: the first non-zero byte decides
cast_to_bool(values) ==
    LET nz == {k \in 1..Len(values) : values[k] # 0}
    IN  IF nz = {} THEN FALSE
        ELSE LET first == CHOOSE k \in nz : \A j \in nz : k <= j
             IN  ~(first = Len(values) /\ values[first] = 128)

\* --------------------------------------------------------------------------
\* big_number: little-endian sign-magnitude byte strings (the sign is the top
\* bit of the last byte), zero is the empty string
\* --------------------------------------------------------------------------

RECURSIVE magnitude_bytes(_)
magnitude_bytes(m) ==
    IF m = 0 THEN <<>> ELSE <<m % 256>> \o magnitude_bytes(m \div 256)

\* big_number::data(): the shortest encoding of n
big_number_data(n) ==
    LET m == IF n < 0 THEN -n ELSE n
        b == magnitude_bytes(m)
    IN  IF m = 0 THEN <<>>
        ELSE IF back(b) >= 128
             THEN push_back(b, IF n < 0 THEN 128 ELSE 0)
             ELSE IF n < 0 THEN [b EXCEPT ![Len(b)] = @ + 128] ELSE b

RECURSIVE little_endian_value(_)
little_endian_value(b) ==
    IF b = <<>> THEN 0 ELSE b[1] + 256 * little_endian_value(Tail(b))

\* big_number::set_data(): the value of a byte string
big_number_set_data(b) ==
    IF b = <<>> THEN 0
    ELSE LET neg == back(b) >= 128
             m == little_endian_value([b EXCEPT ![Len(b)] = @ % 128])
         IN  IF neg THEN -m ELSE m

\* big_number::uint32(): the magnitude as an unsigned word (a cast number has
\* at most 4 bytes, so its magnitude is below 2^31 and nothing is cut off)
big_number_uint32(n) == IF n < 0 THEN -n ELSE n

\* mutant of cast_to_big_number: the length test is dropped
cast_to_big_number_any_length(raw_number) ==
    [ok |-> TRUE, result |-> big_number_set_data(raw_number)]

\* cast_to_big_number: fails on more than 4 bytes
cast_to_big_number(raw_number) ==
    IF Len(raw_number) > 4
    THEN [ok |-> FALSE, result |-> 0]
    ELSE [ok |-> TRUE, result |-> big_number_set_data(raw_number)]

\* big_number(bool).data()
bool_data(v) == big_number_data(IF v THEN 1 ELSE 0)

\* --------------------------------------------------------------------------
\* External hash primitives: deterministic digests of the right length
\* --------------------------------------------------------------------------

RECURSIVE byte_sum(_)
byte_sum(b) == IF b = <<>> THEN 0 ELSE b[1] + byte_sum(Tail(b))

sha256_length == 32
short_hash_length == 20

digest_of(data, n, salt) ==
    [k \in 1..n |-> (salt + 7 * Len(data) + byte_sum(data) * k
                     + (IF Len(data) > 0 THEN data[1] ELSE 0)) % 256]

SHA256(data) == digest_of(data, sha256_length, 1)
generate_ripemd_hash(data) == digest_of(data, short_hash_length, 2)

\* --------------------------------------------------------------------------
\* conditional_stack
\* --------------------------------------------------------------------------

closed(cs) == cs = <<>>
has_failed_branches(cs) == \E k \in 1..Len(cs) : cs[k] = FALSE
open(cs, value) == push_back(cs, value)
else_(cs) == [cs EXCEPT ![Len(cs)] = ~@]
close(cs) == pop_back(cs)

\* --------------------------------------------------------------------------
\* State
\* --------------------------------------------------------------------------

VARIABLES
    pc,             \* position in the composed run, or in a single step / cast
    input_script,   \* the script object run first (passed by value)
    self,           \* the output script object (*this)
    eval_script,    \* the redeem script object of the BIP16 pass
    it,             \* iterator of the running script's loop (1-based)
    bip16_enabled,  \* argument of the composed run
    parent_tx,      \* the spending transaction
    input_index,    \* index of the input being checked (0-based)
    result,         \* "none" while running, then "true" / "false"
    ecdsa_valid,    \* the <<pubkey, digest, signature>> ECDSA verification accepts
    ub_check,       \* what a signature check with undefined behaviour yields
    ub_parse,       \* what a parse that reads outside its input yields
    prev,           \* the latest next_step call: object before it, outcome
    rerun,          \* whether the composed run was already called once before
    values,         \* argument of the cast under SpecCast
    sighash_type,   \* argument of generate_signature_hash under SpecHash
    signature_hash, \* the digest generate_signature_hash returned
    raw_bytes,      \* argument of parse_script under SpecParse
    read_outside,   \* whether the parse read at or after the end of its input
    saved_bytes,    \* what save_script returned
    name_trip       \* an opcode or a name, and what the name functions returned

vars == <<pc, input_script, self, eval_script, it, bip16_enabled, parent_tx,
          input_index, result, ecdsa_valid, ub_check, ub_parse, prev, rerun,
          values, sighash_type, signature_hash, raw_bytes, read_outside,
          saved_bytes, name_trip>>

\* a script object: operations_ and the run-time members
script(operations) ==
    [ operations_ |-> operations,
      stack_ |-> <<>>,
      alternate_stack_ |-> <<>>,
      conditional_stack_ |-> <<>>,
      codehash_begin_ |-> 0 ]

\* outcome of a handler: its return value and the object it leaves
Ok(s) == [ok |-> TRUE, s |-> s]
Fail(s) == [ok |-> FALSE, s |-> s]

\* s with v pushed on stack_ / s with the top of stack_ removed
pushed(s, v) == [s EXCEPT !.stack_ = push_back(@, v)]
popped(s) == [s EXCEPT !.stack_ = pop_back(@)]
top(s) == back(s.stack_)

\* --------------------------------------------------------------------------
\* Opcode handlers
\* --------------------------------------------------------------------------

\* arithmetic_start: a is the first item popped, b the second
arithmetic_start(s) ==
    IF Len(s.stack_) < 2 THEN [ok |-> FALSE, s |-> s, a |-> 0, b |-> 0]
    ELSE LET ca == cast_to_big_number(top(s))
             s1 == popped(s)
         IN  IF ~ca.ok THEN [ok |-> FALSE, s |-> s1, a |-> 0, b |-> 0]
             ELSE LET cb == cast_to_big_number(top(s1))
                      s2 == popped(s1)
                  IN  [ok |-> cb.ok, s |-> s2, a |-> ca.result,
                       b |-> cb.result]

op_negative_1(s) == Ok(pushed(s, big_number_data(-1)))

op_x(s, code) == Ok(pushed(s, big_number_data((code - opcode.op_1 + 1) % 256)))

op_if(s) ==
    IF ~has_failed_branches(s.conditional_stack_)
    THEN IF Len(s.stack_) < 1 THEN Fail(s)
         ELSE Ok([popped(s) EXCEPT !.conditional_stack_ =
                                        open(@, cast_to_bool(top(s)))])
    ELSE Ok([s EXCEPT !.conditional_stack_ = open(@, FALSE)])

op_notif(s) ==
    LET r == op_if(s)
    IN  IF ~r.ok THEN r
        ELSE Ok([r.s EXCEPT !.conditional_stack_ = else_(@)])

op_else(s) ==
    IF closed(s.conditional_stack_) THEN Fail(s)
    ELSE Ok([s EXCEPT !.conditional_stack_ = else_(@)])

op_endif(s) ==
    IF closed(s.conditional_stack_) THEN Fail(s)
    ELSE Ok([s EXCEPT !.conditional_stack_ = close(@)])

op_verify(s) ==
    IF Len(s.stack_) < 1 THEN Fail(s)
    ELSE IF ~cast_to_bool(top(s)) THEN Fail(s)
    ELSE Ok(popped(s))

op_toaltstack(s) ==
    IF Len(s.stack_) < 1 THEN Fail(s)
    ELSE Ok([popped(s) EXCEPT !.alternate_stack_ = push_back(@, top(s))])

op_fromaltstack(s) ==
    IF Len(s.alternate_stack_) < 1 THEN Fail(s)
    ELSE Ok([pushed(s, back(s.alternate_stack_))
                EXCEPT !.alternate_stack_ = pop_back(@)])

op_ifdup(s) ==
    IF Len(s.stack_) < 1 THEN Fail(s)
    ELSE IF cast_to_bool(top(s)) THEN Ok(pushed(s, top(s))) ELSE Ok(s)

op_depth(s) == Ok(pushed(s, big_number_data(Len(s.stack_))))

op_drop(s) == IF Len(s.stack_) < 1 THEN Fail(s) ELSE Ok(popped(s))

op_dup(s) == IF Len(s.stack_) < 1 THEN Fail(s) ELSE Ok(pushed(s, top(s)))

op_nip(s) ==
    IF Len(s.stack_) < 2 THEN Fail(s)
    ELSE Ok([s EXCEPT !.stack_ = erase(@, Len(@) - 1)])

op_over(s) ==
    IF Len(s.stack_) < 2 THEN Fail(s)
    ELSE Ok(pushed(s, s.stack_[Len(s.stack_) - 1]))

\* mutant of pick_roll_impl: ROLL does not erase the item it moves
pick_roll_impl_no_erase(s, is_roll) ==
    IF Len(s.stack_) < 2 THEN Fail(s)
    ELSE LET c == cast_to_big_number(top(s))
         IN  IF ~c.ok THEN Fail(s)
             ELSE LET s1 == popped(s)
                      n == big_number_uint32(c.result)
                  IN  IF n >= Len(s1.stack_) THEN Fail(s1)
                      ELSE Ok(pushed(s1, s1.stack_[Len(s1.stack_) - n]))

pick_roll_impl(s, is_roll) ==
    IF Len(s.stack_) < 2 THEN Fail(s)
    ELSE LET c == cast_to_big_number(top(s))
         IN  IF ~c.ok THEN Fail(s)
             ELSE LET s1 == popped(s)
                      n == big_number_uint32(c.result)
                  IN  IF n >= Len(s1.stack_) THEN Fail(s1)
                      ELSE LET slice_iter == Len(s1.stack_) - n
                               item == s1.stack_[slice_iter]
                               s2 == IF is_roll
                                     THEN [s1 EXCEPT !.stack_ =
                                                        erase(@, slice_iter)]
                                     ELSE s1
                           IN  Ok(pushed(s2, item))

op_pick(s) == pick_roll_impl(s, FALSE)
op_roll(s) == pick_roll_impl(s, TRUE)

op_size(s) ==
    IF Len(s.stack_) < 1 THEN Fail(s)
    ELSE Ok(pushed(s, big_number_data(Len(top(s)))))

op_not(s) ==
    IF Len(s.stack_) < 1 THEN Fail(s)
    ELSE LET c == cast_to_big_number(top(s))
         IN  IF ~c.ok THEN Fail(popped(s))
             ELSE Ok(pushed(popped(s), bool_data(c.result = 0)))

op_boolor(s) ==
    LET r == arithmetic_start(s)
    IN  IF ~r.ok THEN Fail(r.s)
        ELSE Ok(pushed(r.s, bool_data(r.a # 0 \/ r.b # 0)))

op_min(s) ==
    LET r == arithmetic_start(s)
    IN  IF ~r.ok THEN Fail(r.s)
        ELSE Ok(pushed(r.s, big_number_data(IF r.a < r.b THEN r.a ELSE r.b)))

op_sha256(s) ==
    IF Len(s.stack_) < 1 THEN Fail(s)
    ELSE Ok(pushed(popped(s), SHA256(top(s))))

op_hash160(s) ==
    IF Len(s.stack_) < 1 THEN Fail(s)
    ELSE Ok(pushed(popped(s), generate_ripemd_hash(top(s))))

\* mutant of op_equal: false is pushed as a zero byte
op_equal_zero_byte(s) ==
    IF Len(s.stack_) < 2 THEN Fail(s)
    ELSE LET s2 == popped(popped(s))
         IN  IF top(s) = top(popped(s))
             THEN Ok(pushed(s2, stack_true_value))
             ELSE Ok(pushed(s2, <<0>>))

op_equal(s) ==
    IF Len(s.stack_) < 2 THEN Fail(s)
    ELSE LET s2 == popped(popped(s))
         IN  IF top(s) = top(popped(s))
             THEN Ok(pushed(s2, stack_true_value))
             ELSE Ok(pushed(s2, stack_false_value))

op_equalverify(s) ==
    IF Len(s.stack_) < 2 THEN Fail(s)
    ELSE [ok |-> top(s) = top(popped(s)), s |-> popped(popped(s))]

op_add(s) ==
    LET r == arithmetic_start(s)
    IN  IF ~r.ok THEN Fail(r.s)
        ELSE Ok(pushed(r.s, big_number_data(r.a + r.b)))

op_greaterthanorequal(s) ==
    LET r == arithmetic_start(s)
    IN  IF ~r.ok THEN Fail(r.s)
        ELSE Ok(pushed(r.s, bool_data(r.a >= r.b)))

\* --------------------------------------------------------------------------
\* Signature hash and signature checks
\* --------------------------------------------------------------------------

sighash == [all |-> 1, none |-> 2, single |-> 3, anyone_can_pay |-> 128]

\* value of an output after output.value = ~0: all 64 bits set, written as the
\* two's complement number it is assigned from
all_ones_value == -1

empty_tx == [inputs |-> <<>>, outputs |-> <<>>]

\* the all-zero digest
null_hash == [null |-> TRUE, tx |-> empty_tx, hash_type |-> 0]

\* hash_transaction: the digest stands for the transaction and hash type hashed
hash_transaction(tx, hash_type) ==
    [null |-> FALSE, tx |-> tx, hash_type |-> hash_type]

nullify_input_sequences(inputs, except_input) ==
    [k \in 1..Len(inputs) |->
        IF k - 1 # except_input THEN [inputs[k] EXCEPT !.sequence = 0]
        ELSE inputs[k]]

generate_signature_hash(tx, index, script_code, hash_type) ==
    LET mode == hash_type % 32
        single_out_of_range ==
            mode = sighash.single /\ index >= Len(tx.outputs)
        tx1 == IF mode = sighash.none
               THEN [tx EXCEPT !.outputs = <<>>,
                               !.inputs = nullify_input_sequences(@, index)]
               ELSE IF mode = sighash.single /\ ~single_out_of_range
               THEN [tx EXCEPT
                       !.outputs =
                           [k \in 1..(index + 1) |->
                               [value |-> all_ones_value,
                                output_script |-> <<>>]],
                       !.inputs = nullify_input_sequences(@, index)]
               ELSE tx
        tx2 == IF (hash_type \div 128) % 2 = 1
               THEN [tx1 EXCEPT !.inputs = <<tx1.inputs[index + 1]>>]
               ELSE tx1
    IN  IF single_out_of_range THEN null_hash
        ELSE IF index >= Len(tx2.inputs) THEN null_hash
        ELSE LET blanked == [k \in 1..Len(tx2.inputs) |->
                                [tx2.inputs[k] EXCEPT !.input_script =
                                    IF k = index + 1 THEN script_code
                                    ELSE <<>>]]
             IN  hash_transaction([tx2 EXCEPT !.inputs = blanked], hash_type)

\* elliptic_curve_key::set_public_key: accepts an encoded curve point
set_public_key(pubkey) == Len(pubkey) > 0 /\ pubkey[1] \in {2, 3, 4}

\* elliptic_curve_key::verify of a signature over a digest
key_verify(pubkey, tx_hash, signature) ==
    <<pubkey, tx_hash, signature>> \in ecdsa_valid

\* mutant of check_signature: the all-zero digest is handed to the key
check_signature_no_null_test(signature, pubkey, script_code, tx, index) ==
    IF ~set_public_key(pubkey) THEN FALSE
    ELSE IF signature = <<>> THEN ub_check
    ELSE key_verify(pubkey,
                    generate_signature_hash(tx, index, script_code,
                                            back(signature)),
                    pop_back(signature))

\* check_signature; back() and pop_back() of an empty signature are undefined
check_signature(signature, pubkey, script_code, tx, index) ==
    IF ~set_public_key(pubkey) THEN FALSE
    ELSE IF signature = <<>> THEN ub_check
    ELSE LET hash_type == back(signature)
             tx_hash == generate_signature_hash(tx, index, script_code,
                                                hash_type)
         IN  IF tx_hash = null_hash THEN FALSE
             ELSE key_verify(pubkey, tx_hash, pop_back(signature))

\* operations from codehash_begin_ on, without the CODESEPARATORs and without
\* the operations whose data is one of the signatures
RECURSIVE script_code_from(_, _, _)
script_code_from(operations, k, signatures) ==
    IF k > Len(operations) THEN <<>>
    ELSE IF operations[k].data \in signatures
            \/ operations[k].code = opcode.codeseparator
    THEN script_code_from(operations, k + 1, signatures)
    ELSE <<operations[k]>> \o script_code_from(operations, k + 1, signatures)

\* mutant of op_checksigverify: the script code starts at the first operation
op_checksigverify_from_start(s, tx, index) ==
    IF Len(s.stack_) < 2 THEN Fail(s)
    ELSE LET pubkey == top(s)
             signature == top(popped(s))
             s2 == popped(popped(s))
             script_code == script_code_from(s2.operations_, 1, {signature})
         IN  [ok |-> check_signature(signature, pubkey, script_code, tx,
                                     index),
              s |-> s2]

op_checksigverify(s, tx, index) ==
    IF Len(s.stack_) < 2 THEN Fail(s)
    ELSE LET pubkey == top(s)
             signature == top(popped(s))
             s2 == popped(popped(s))
             script_code == script_code_from(s2.operations_,
                                             s2.codehash_begin_, {signature})
         IN  [ok |-> check_signature(signature, pubkey, script_code, tx,
                                     index),
              s |-> s2]

op_checksig(s, tx, index) ==
    LET r == op_checksigverify(s, tx, index)
    IN  IF r.ok THEN Ok(pushed(r.s, stack_true_value))
        ELSE Ok(pushed(r.s, stack_false_value))

\* read_section: pops a count, then that many items (first popped first)
read_section(s) ==
    IF s.stack_ = <<>> THEN [ok |-> FALSE, s |-> s, section |-> <<>>]
    ELSE LET c == cast_to_big_number(top(s))
             s1 == popped(s)
             count == big_number_uint32(c.result)
         IN  IF ~c.ok THEN [ok |-> FALSE, s |-> s1, section |-> <<>>]
             ELSE IF Len(s1.stack_) < count
             THEN [ok |-> FALSE, s |-> s1, section |-> <<>>]
             ELSE [ok |-> TRUE,
                   s |-> [s1 EXCEPT !.stack_ =
                             SubSeq(@, 1, Len(@) - count)],
                   section |-> [k \in 1..count |->
                                   s1.stack_[Len(s1.stack_) - k + 1]]]

\* the matching loop of op_checkmultisigverify: signature si is tried on the
\* pubkeys from pubkey_current on; a match leaves the cursor on that pubkey
RECURSIVE match_signatures(_, _, _, _, _, _, _)
match_signatures(sigs, si, pubkeys, pubkey_iter, script_code, tx, index) ==
    IF si > Len(sigs) THEN TRUE
    ELSE IF pubkeys = <<>> THEN ub_check
    ELSE IF check_signature(sigs[si], pubkeys[pubkey_iter], script_code, tx,
                            index)
    THEN match_signatures(sigs, si + 1, pubkeys, pubkey_iter, script_code, tx,
                          index)
    ELSE IF pubkey_iter + 1 > Len(pubkeys) THEN FALSE
    ELSE match_signatures(sigs, si, pubkeys, pubkey_iter + 1, script_code, tx,
                          index)

\* mutant of op_checkmultisigverify: one more item is popped below the
\* signatures
op_checkmultisigverify_dummy(s, tx, index) ==
    LET p == read_section(s)
    IN  IF ~p.ok THEN Fail(p.s)
        ELSE LET g == read_section(p.s)
             IN  IF ~g.ok THEN Fail(g.s)
                 ELSE IF g.s.stack_ = <<>> THEN Fail(g.s)
                 ELSE LET signatures == {g.section[k] :
                                             k \in 1..Len(g.section)}
                          script_code ==
                              script_code_from(g.s.operations_,
                                  g.s.codehash_begin_, signatures)
                      IN  [ok |-> match_signatures(g.section, 1, p.section,
                                      1, script_code, tx, index),
                           s |-> popped(g.s)]

op_checkmultisigverify(s, tx, index) ==
    LET p == read_section(s)
    IN  IF ~p.ok THEN Fail(p.s)
        ELSE LET g == read_section(p.s)
             IN  IF ~g.ok THEN Fail(g.s)
                 ELSE LET signatures == {g.section[k] :
                                             k \in 1..Len(g.section)}
                          script_code ==
                              script_code_from(g.s.operations_,
                                  g.s.codehash_begin_, signatures)
                      IN  [ok |-> match_signatures(g.section, 1, p.section,
                                      1, script_code, tx, index),
                           s |-> g.s]

op_checkmultisig(s, tx, index) ==
    LET r == op_checkmultisigverify(s, tx, index)
    IN  IF r.ok THEN Ok(pushed(r.s, stack_true_value))
        ELSE Ok(pushed(r.s, stack_false_value))

\* --------------------------------------------------------------------------
\* Dispatch
\* --------------------------------------------------------------------------

opcode_is_disabled(code) == FALSE

is_condition_opcode(code) ==
    code \in {opcode.if_, opcode.notif, opcode.else_, opcode.endif}

is_data_push(code) ==
    code \in {opcode.special, opcode.pushdata1, opcode.pushdata2,
              opcode.pushdata4}

run_operation(s, op, tx, index) ==
    CASE op.code = opcode.zero \/ is_data_push(op.code) -> Ok(s)
      [] op.code = opcode.codeseparator -> Ok(s)
      [] op.code = opcode.negative_1 -> op_negative_1(s)
      [] op.code = opcode.reserved -> Fail(s)
      [] op.code \in opcode.op_1..opcode.op_16 -> op_x(s, op.code)
      [] op.code = opcode.nop -> Ok(s)
      [] op.code = opcode.ver -> Fail(s)
      [] op.code = opcode.if_ -> op_if(s)
      [] op.code = opcode.notif -> op_notif(s)
      [] op.code \in {opcode.verif, opcode.vernotif} -> Fail(s)
      [] op.code = opcode.else_ -> op_else(s)
      [] op.code = opcode.endif -> op_endif(s)
      [] op.code = opcode.verify -> op_verify(s)
      [] op.code = opcode.toaltstack -> op_toaltstack(s)
      [] op.code = opcode.fromaltstack -> op_fromaltstack(s)
      [] op.code = opcode.ifdup -> op_ifdup(s)
      [] op.code = opcode.depth -> op_depth(s)
      [] op.code = opcode.drop -> op_drop(s)
      [] op.code = opcode.dup -> op_dup(s)
      [] op.code = opcode.nip -> op_nip(s)
      [] op.code = opcode.over -> op_over(s)
      [] op.code = opcode.pick -> op_pick(s)
      [] op.code = opcode.roll -> op_roll(s)
      [] op.code = opcode.size -> op_size(s)
      [] op.code \in {opcode.reserved1, opcode.reserved2} -> Fail(s)
      [] op.code = opcode.not_ -> op_not(s)
      [] op.code = opcode.boolor -> op_boolor(s)
      [] op.code = opcode.min -> op_min(s)
      [] op.code = opcode.sha256 -> op_sha256(s)
      [] op.code = opcode.hash160 -> op_hash160(s)
      [] op.code = opcode.equal -> op_equal(s)
      [] op.code = opcode.equalverify -> op_equalverify(s)
      [] op.code = opcode.add -> op_add(s)
      [] op.code = opcode.greaterthanorequal -> op_greaterthanorequal(s)
      [] op.code = opcode.checksig -> op_checksig(s, tx, index)
      [] op.code = opcode.checksigverify -> op_checksigverify(s, tx, index)
      [] op.code = opcode.checkmultisig -> op_checkmultisig(s, tx, index)
      [] op.code = opcode.checkmultisigverify ->
             op_checkmultisigverify(s, tx, index)
      [] op.code \in opcode.op_nop1..opcode.op_nop10 -> Ok(s)
      [] op.code = opcode.raw_data -> Fail(s)
      [] OTHER -> Fail(s)

\* mutant of next_step: the skip of a non-executing branch is dropped
next_step_no_skip(s, i, tx, index) ==
    LET op == s.operations_[i]
    IN  IF op.code = opcode.zero THEN Ok(pushed(s, <<>>))
        ELSE IF is_data_push(op.code) THEN Ok(pushed(s, op.data))
        ELSE IF op.code = opcode.codeseparator
        THEN Ok([s EXCEPT !.codehash_begin_ = i])
        ELSE run_operation(s, op, tx, index)

\* mutant of next_step: CODESEPARATOR is handled before the skip
next_step_separator_first(s, i, tx, index) ==
    LET op == s.operations_[i]
        allow_execution == ~has_failed_branches(s.conditional_stack_)
    IN  IF op.code = opcode.codeseparator
        THEN Ok([s EXCEPT !.codehash_begin_ = i])
        ELSE IF ~allow_execution /\ ~is_condition_opcode(op.code) THEN Ok(s)
        ELSE IF op.code = opcode.zero THEN Ok(pushed(s, <<>>))
        ELSE IF is_data_push(op.code) THEN Ok(pushed(s, op.data))
        ELSE run_operation(s, op, tx, index)

\* next_step on the operation at iterator i of script object s
next_step(s, i, tx, index) ==
    LET op == s.operations_[i]
        allow_execution == ~has_failed_branches(s.conditional_stack_)
    IN  IF opcode_is_disabled(op.code) THEN Fail(s)
        ELSE IF ~allow_execution /\ ~is_condition_opcode(op.code) THEN Ok(s)
        ELSE IF op.code = opcode.zero THEN Ok(pushed(s, <<>>))
        ELSE IF is_data_push(op.code) THEN Ok(pushed(s, op.data))
        ELSE IF op.code = opcode.codeseparator
        THEN Ok([s EXCEPT !.codehash_begin_ = i])
        ELSE run_operation(s, op, tx, index)

\* mutant of run_reset: the conditional stack is not cleared
run_reset_keep_conditional(s) ==
    [s EXCEPT !.alternate_stack_ = <<>>,
              !.codehash_begin_ = 1]

\* mutant of run_reset: the cursor is not set to the first operation
run_reset_keep_cursor(s) ==
    [s EXCEPT !.alternate_stack_ = <<>>,
              !.conditional_stack_ = <<>>]

\* the head of script::run(tx, i): the run-time members it resets
run_reset(s) ==
    [s EXCEPT !.alternate_stack_ = <<>>,
              !.codehash_begin_ = 1,
              !.conditional_stack_ = <<>>]

\* script::run(tx, i) as a function: the loop from iterator i on, then the
\* test that every conditional is closed
RECURSIVE run_from(_, _, _, _)
run_from(s, i, tx, index) ==
    IF i > Len(s.operations_) THEN [ok |-> closed(s.conditional_stack_), s |-> s]
    ELSE LET r == next_step(s, i, tx, index)
         IN  IF r.ok THEN run_from(r.s, i + 1, tx, index) ELSE r

run_script(s, tx, index) == run_from(run_reset(s), 1, tx, index)

\* --------------------------------------------------------------------------
\* Script classification and parsing
\* --------------------------------------------------------------------------

is_push(code) ==
    code \in {opcode.zero, opcode.special, opcode.pushdata1,
              opcode.pushdata2, opcode.pushdata4, opcode.negative_1}
             \cup (opcode.op_1..opcode.op_16)

\* mutant of is_push_only: one push operation is enough
is_push_only_any(operations) ==
    \E k \in 1..Len(operations) : is_push(operations[k].code)

is_push_only(operations) ==
    \A k \in 1..Len(operations) : is_push(operations[k].code)

is_script_hash_type(ops) ==
    /\ Len(ops) = 3
    /\ ops[1].code = opcode.hash160
    /\ ops[2].code = opcode.special
    /\ Len(ops[2].data) = short_hash_length
    /\ ops[3].code = opcode.equal

is_pubkey_type(ops) ==
    /\ Len(ops) = 2
    /\ ops[1].code = opcode.special
    /\ ops[2].code = opcode.checksig

is_pubkey_hash_type(ops) ==
    /\ Len(ops) = 5
    /\ ops[1].code = opcode.dup
    /\ ops[2].code = opcode.hash160
    /\ ops[3].code = opcode.special
    /\ Len(ops[3].data) = short_hash_length
    /\ ops[4].code = opcode.equalverify
    /\ ops[5].code = opcode.checksig

is_multisig_type(ops) == FALSE

type(ops) ==
    IF is_pubkey_type(ops) THEN "pubkey"
    ELSE IF is_pubkey_hash_type(ops) THEN "pubkey_hash"
    ELSE IF is_script_hash_type(ops) THEN "script_hash"
    ELSE IF is_multisig_type(ops) THEN "multisig"
    ELSE "non_standard"

\* cast_chunk<T>: the little-endian value of a length prefix; a 4-byte value of
\* 2^31 or more is written as 2^31 - 1, which as well is longer than any input
cast_chunk(chunk) ==
    IF Len(chunk) = 4 /\ chunk[4] >= 128 THEN 2147483647
    ELSE little_endian_value(chunk)

\* parse_script from position i on. "premature" is read_push_data's failure
\* (parse_script then returns the empty script); "outside" is a length prefix
\* read at or after the end of the input, which is undefined.
RECURSIVE parse_from(_, _)
parse_from(raw, i) ==
    IF i > Len(raw) THEN [status |-> "ok", ops |-> <<>>]
    ELSE
    LET raw_byte == raw[i]
        code == IF raw_byte = 0 THEN opcode.zero
                ELSE IF raw_byte <= 75 THEN opcode.special
                ELSE raw_byte
        \* bytes of the length prefix
        width == IF code = opcode.pushdata1 THEN 1
                 ELSE IF code = opcode.pushdata2 THEN 2
                 ELSE IF code = opcode.pushdata4 THEN 4
                 ELSE 0
        has_length == code \in {opcode.zero, opcode.special} \/ width > 0
        read_n_bytes ==
            IF width = 0 THEN raw_byte
            ELSE cast_chunk(SubSeq(raw, i + 1, i + width))
        \* the iterator after number_of_bytes_from_opcode
        j == i + width
    IN  IF width > 0 /\ j > Len(raw) THEN [status |-> "outside", ops |-> <<>>]
        ELSE IF has_length /\ read_n_bytes # 0 /\ read_n_bytes > Len(raw) - j
        THEN [status |-> "premature", ops |-> <<>>]
        ELSE LET n == IF has_length THEN read_n_bytes ELSE 0
                 op == Op(code, SubSeq(raw, j + 1, j + n))
                 rest == parse_from(raw, j + n + 1)
             IN  IF rest.status = "ok"
                 THEN [status |-> "ok", ops |-> <<op>> \o rest.ops]
                 ELSE rest

parse_script(raw_script) ==
    LET r == parse_from(raw_script, 1)
    IN  IF r.status = "ok" THEN r.ops
        ELSE IF r.status = "premature" THEN <<>>
        ELSE ub_parse

\* whether number_of_bytes_from_opcode dereferences an iterator at or after
\* the end of raw_script
parse_reads_outside(raw_script) == parse_from(raw_script, 1).status = "outside"

\* uncast_type<T>: n as sizeof(T) little-endian bytes
uncast_type(width, n) == [k \in 1..width |-> (n \div (256 ^ (k - 1))) % 256]

operation_metadata(code, data_size) ==
    IF code = opcode.pushdata1 THEN uncast_type(1, data_size)
    ELSE IF code = opcode.pushdata2 THEN uncast_type(2, data_size)
    ELSE IF code = opcode.pushdata4 THEN uncast_type(4, data_size)
    ELSE <<>>

\* the loop of save_script from operation k on
RECURSIVE save_from(_, _)
save_from(operations, k) ==
    IF k > Len(operations) THEN <<>>
    ELSE LET op == operations[k]
             raw_byte == IF op.code = opcode.special THEN Len(op.data) % 256
                         ELSE op.code % 256
         IN  <<raw_byte>> \o operation_metadata(op.code, Len(op.data))
                 \o op.data \o save_from(operations, k + 1)

save_script(operations) ==
    IF operations = <<>> THEN <<>>
    ELSE IF operations[1].code = opcode.raw_data THEN operations[1].data
    ELSE save_from(operations, 1)

\* --------------------------------------------------------------------------
\* Opcode names
\* --------------------------------------------------------------------------

\* the cases of the switch of opcode_to_string
opcode_strings ==
    {<<opcode.zero, "zero">>, <<opcode.special, "special">>,
      <<opcode.pushdata1, "pushdata1">>, <<opcode.pushdata2, "pushdata2">>,
      <<opcode.pushdata4, "pushdata4">>, <<opcode.negative_1, "-1">>,
      <<opcode.reserved, "reserved">>, <<opcode.op_1, "1">>,
      <<opcode.op_2, "2">>, <<opcode.op_3, "3">>, <<opcode.op_4, "4">>,
      <<opcode.op_5, "5">>, <<opcode.op_6, "6">>, <<opcode.op_7, "7">>,
      <<opcode.op_8, "8">>, <<opcode.op_9, "9">>, <<opcode.op_10, "10">>,
      <<opcode.op_11, "11">>, <<opcode.op_12, "12">>, <<opcode.op_13, "13">>,
      <<opcode.op_14, "14">>, <<opcode.op_15, "15">>, <<opcode.op_16, "16">>,
      <<opcode.nop, "nop">>, <<opcode.ver, "ver">>, <<opcode.if_, "if">>,
      <<opcode.notif, "notif">>, <<opcode.else_, "else">>,
      <<opcode.endif, "endif">>, <<opcode.verify, "verify">>,
      <<opcode.toaltstack, "toaltstack">>,
      <<opcode.fromaltstack, "fromaltstack">>, <<opcode.ifdup, "ifdup">>,
      <<opcode.depth, "depth">>, <<opcode.drop, "drop">>,
      <<opcode.dup, "dup">>, <<opcode.nip, "nip">>, <<opcode.over, "over">>,
      <<opcode.pick, "pick">>, <<opcode.roll, "roll">>,
      <<opcode.size, "size">>, <<opcode.reserved1, "reserved1">>,
      <<opcode.reserved2, "reserved2">>, <<opcode.not_, "not">>,
      <<opcode.boolor, "boolor">>, <<opcode.min, "min">>,
      <<opcode.sha256, "sha256">>, <<opcode.hash160, "hash160">>,
      <<opcode.equal, "equal">>, <<opcode.equalverify, "equalverify">>,
      <<opcode.add, "add">>,
      <<opcode.greaterthanorequal, "greaterthanorequal">>,
      <<opcode.codeseparator, "codeseparator">>,
      <<opcode.checksig, "checksig">>,
      <<opcode.checksigverify, "checksigverify">>,
      <<opcode.checkmultisig, "checkmultisig">>,
      <<opcode.checkmultisigverify, "checkmultisigverify">>,
      <<opcode.op_nop1, "op_nop1">>, <<opcode.op_nop2, "op_nop2">>,
      <<opcode.op_nop3, "op_nop3">>, <<opcode.op_nop4, "op_nop4">>,
      <<opcode.op_nop5, "op_nop5">>, <<opcode.op_nop6, "op_nop6">>,
      <<opcode.op_nop7, "op_nop7">>, <<opcode.op_nop8, "op_nop8">>,
      <<opcode.op_nop9, "op_nop9">>, <<opcode.op_nop10, "op_nop10">>,
      <<opcode.raw_data, "raw_data">> }

opcode_to_string(code) ==
    IF \E c \in opcode_strings : c[1] = code
    THEN (CHOOSE c \in opcode_strings : c[1] = code)[2]
    ELSE "<none " \o ToString(code) \o ">"

\* the comparisons of string_to_opcode
string_opcodes ==
    {<<"zero", opcode.zero>>, <<"special", opcode.special>>,
      <<"pushdata1", opcode.pushdata1>>, <<"pushdata2", opcode.pushdata2>>,
      <<"pushdata4", opcode.pushdata4>>, <<"-1", opcode.negative_1>>,
      <<"reserved", opcode.reserved>>, <<"1", opcode.op_1>>,
      <<"2", opcode.op_2>>, <<"3", opcode.op_3>>, <<"4", opcode.op_4>>,
      <<"5", opcode.op_5>>, <<"6", opcode.op_6>>, <<"7", opcode.op_7>>,
      <<"8", opcode.op_8>>, <<"9", opcode.op_9>>, <<"10", opcode.op_10>>,
      <<"11", opcode.op_11>>, <<"12", opcode.op_12>>, <<"13", opcode.op_13>>,
      <<"14", opcode.op_14>>, <<"15", opcode.op_15>>, <<"16", opcode.op_16>>,
      <<"nop", opcode.nop>>, <<"ver", opcode.ver>>, <<"if", opcode.if_>>,
      <<"notif", opcode.notif>>, <<"verif", opcode.verif>>,
      <<"vernotif", opcode.vernotif>>, <<"else", opcode.else_>>,
      <<"endif", opcode.endif>>, <<"verify", opcode.verify>>,
      <<"toaltstack", opcode.toaltstack>>,
      <<"fromaltstack", opcode.fromaltstack>>, <<"ifdup", opcode.ifdup>>,
      <<"depth", opcode.depth>>, <<"drop", opcode.drop>>,
      <<"dup", opcode.dup>>, <<"nip", opcode.nip>>, <<"over", opcode.over>>,
      <<"pick", opcode.pick>>, <<"roll", opcode.roll>>,
      <<"size", opcode.size>>, <<"reserved1", opcode.reserved1>>,
      <<"reserved2", opcode.reserved2>>, <<"not", opcode.not_>>,
      <<"boolor", opcode.boolor>>, <<"min", opcode.min>>,
      <<"sha256", opcode.sha256>>, <<"hash160", opcode.hash160>>,
      <<"equal", opcode.equal>>, <<"equalverify", opcode.equalverify>>,
      <<"add", opcode.add>>,
      <<"greaterthanorequal", opcode.greaterthanorequal>>,
      <<"codeseparator", opcode.codeseparator>>,
      <<"checksig", opcode.checksig>>,
      <<"checksigverify", opcode.checksigverify>>,
      <<"checkmultisig", opcode.checkmultisig>>,
      <<"checkmultisigverify", opcode.checkmultisigverify>>,
      <<"op_nop1", opcode.op_nop1>>, <<"op_nop2", opcode.op_nop2>>,
      <<"op_nop3", opcode.op_nop3>>, <<"op_nop4", opcode.op_nop4>>,
      <<"op_nop5", opcode.op_nop5>>, <<"op_nop6", opcode.op_nop6>>,
      <<"op_nop7", opcode.op_nop7>>, <<"op_nop8", opcode.op_nop8>>,
      <<"op_nop9", opcode.op_nop9>>, <<"op_nop10", opcode.op_nop10>>,
      <<"raw_data", opcode.raw_data>> }

string_to_opcode(code_repr) ==
    IF \E c \in string_opcodes : c[1] = code_repr
    THEN (CHOOSE c \in string_opcodes : c[1] = code_repr)[2]
    ELSE opcode.bad_operation

\* --------------------------------------------------------------------------
\* The composed run script::run(input_script, parent_tx, input_index, bip16)
\* and the single run script::run(parent_tx, input_index), one loop iteration
\* per action
\* --------------------------------------------------------------------------

bool_result(v) == IF v THEN "true" ELSE "false"

no_step == [who |-> "none", at |-> 0, ok |-> TRUE, s |-> script(<<>>)]

\* no name function was called
no_trip == [from |-> "none", code |-> 0, repr |-> "", back_code |-> 0,
            back_repr |-> ""]

\* what the latest next_step call was given and returned
step_record(who, s, r) == [who |-> who, at |-> it, ok |-> r.ok, s |-> s]

\* mutant of run_end: an open conditional is not looked at
run_end_any(s) == TRUE

\* the checks after the loop of script::run(tx, i)
run_end(s) == closed(s.conditional_stack_)

\* mutant of stack_verdict: the boolean cast of the top is dropped
stack_verdict_nonempty(s) == s.stack_ # <<>>

\* the final-stack test of the composed run
stack_verdict(s) == s.stack_ # <<>> /\ cast_to_bool(top(s))

\* the arguments of a run, and what only the other specifications change
RunArgs == <<bip16_enabled, parent_tx, input_index, ecdsa_valid, ub_check,
             ub_parse, values, sighash_type, signature_hash, raw_bytes,
             read_outside, saved_bytes, name_trip>>

\* lines 131-133: both stacks are cleared and input_script.run begins
Start ==
    /\ pc = "start"
    /\ self' = [self EXCEPT !.stack_ = <<>>]
    /\ input_script' = run_reset([input_script EXCEPT !.stack_ = <<>>])
    /\ it' = 1
    /\ pc' = "input"
    /\ UNCHANGED <<eval_script, result, prev, rerun, RunArgs>>

\* one iteration of the loop of input_script.run
StepInput ==
    /\ pc = "input"
    /\ it <= Len(input_script.operations_)
    /\ LET r == next_step(input_script, it, parent_tx, input_index)
       IN  /\ input_script' = r.s
           /\ prev' = step_record("input", input_script, r)
           /\ IF r.ok
              THEN it' = it + 1 /\ UNCHANGED <<pc, result>>
              ELSE pc' = "done" /\ result' = "false" /\ UNCHANGED it
    /\ UNCHANGED <<self, eval_script, rerun, RunArgs>>

\* lines 198-199 of input_script.run, then lines 134-136: the stack is copied
\* and the run of the output script begins
InputDone ==
    /\ pc = "input"
    /\ it > Len(input_script.operations_)
    /\ IF ~run_end(input_script)
       THEN /\ pc' = "done" /\ result' = "false"
            /\ UNCHANGED <<self, it>>
       ELSE /\ self' = run_reset([self EXCEPT !.stack_ = input_script.stack_])
            /\ it' = 1
            /\ pc' = "output"
            /\ UNCHANGED result
    /\ UNCHANGED <<input_script, eval_script, prev, rerun, RunArgs>>

\* one iteration of the loop of the output script's run
StepOutput ==
    /\ pc = "output"
    /\ it <= Len(self.operations_)
    /\ LET r == next_step(self, it, parent_tx, input_index)
       IN  /\ self' = r.s
           /\ prev' = step_record("output", self, r)
           /\ IF r.ok
              THEN it' = it + 1 /\ UNCHANGED <<pc, result>>
              ELSE pc' = "done" /\ result' = "false" /\ UNCHANGED it
    /\ UNCHANGED <<input_script, eval_script, rerun, RunArgs>>

\* mutant of make_eval_script: the serialized script is not popped
make_eval_script_no_pop(in_stack) ==
    run_reset([script(parse_script(back(in_stack)))
                  EXCEPT !.stack_ = in_stack])

\* the script object the BIP16 pass runs: the top of the input script's stack
\* parsed, the items below it as its stack
make_eval_script(in_stack) ==
    run_reset([script(parse_script(back(in_stack)))
                  EXCEPT !.stack_ = pop_back(in_stack)])

\* mutant of bip16_applies: the pass is taken when BIP16 is disabled
bip16_applies_disabled(enabled, ops) == ~enabled /\ type(ops) = "script_hash"

\* whether the composed run goes on to the BIP16 pass (line 143)
bip16_applies(enabled, ops) == enabled /\ type(ops) = "script_hash"

\* script::run(input_script, parent_tx, input_index, bip16_enabled) as a
\* function of its arguments, for an output script object out
run_composed(in, out, tx, index, enabled) ==
    LET in_run == run_script([in EXCEPT !.stack_ = <<>>], tx, index)
        out_run == run_script([out EXCEPT !.stack_ = in_run.s.stack_],
                              tx, index)
        eval_run == run_from(make_eval_script(in_run.s.stack_), 1, tx, index)
    IN  IF ~in_run.ok THEN FALSE
        ELSE IF ~out_run.ok THEN FALSE
        ELSE IF ~stack_verdict(out_run.s) THEN FALSE
        ELSE IF bip16_applies(enabled, out.operations_)
        THEN IF ~is_push_only(in.operations_) THEN FALSE
             ELSE eval_run.ok /\ stack_verdict(eval_run.s)
        ELSE TRUE

\* lines 198-199 of the output script's run, then lines 137-153
OutputDone ==
    /\ pc = "output"
    /\ it > Len(self.operations_)
    /\ IF ~run_end(self) \/ ~stack_verdict(self)
       THEN pc' = "done" /\ result' = "false" /\ UNCHANGED <<eval_script, it>>
       ELSE IF bip16_applies(bip16_enabled, self.operations_)
       THEN IF ~is_push_only(input_script.operations_)
            THEN /\ pc' = "done" /\ result' = "false"
                 /\ UNCHANGED <<eval_script, it>>
            ELSE /\ eval_script' = make_eval_script(input_script.stack_)
                 /\ it' = 1
                 /\ pc' = "eval"
                 /\ UNCHANGED result
       ELSE pc' = "done" /\ result' = "true" /\ UNCHANGED <<eval_script, it>>
    /\ UNCHANGED <<input_script, self, prev, rerun, RunArgs>>

\* mutant of StepEval: the loop goes on after a failed step
StepEval_past_failure ==
    /\ pc = "eval"
    /\ it <= Len(eval_script.operations_)
    /\ LET r == next_step(eval_script, it, parent_tx, input_index)
       IN  /\ eval_script' = r.s
           /\ prev' = step_record("eval", eval_script, r)
           /\ it' = it + 1
           /\ UNCHANGED <<pc, result>>
    /\ UNCHANGED <<input_script, self, rerun, RunArgs>>

\* one iteration of the loop of eval_script.run
StepEval ==
    /\ pc = "eval"
    /\ it <= Len(eval_script.operations_)
    /\ LET r == next_step(eval_script, it, parent_tx, input_index)
       IN  /\ eval_script' = r.s
           /\ prev' = step_record("eval", eval_script, r)
           /\ IF r.ok
              THEN it' = it + 1 /\ UNCHANGED <<pc, result>>
              ELSE pc' = "done" /\ result' = "false" /\ UNCHANGED it
    /\ UNCHANGED <<input_script, self, rerun, RunArgs>>

\* lines 198-199 of eval_script.run, then lines 154-158
EvalDone ==
    /\ pc = "eval"
    /\ it > Len(eval_script.operations_)
    /\ pc' = "done"
    /\ result' = bool_result(run_end(eval_script) /\ stack_verdict(eval_script))
    /\ UNCHANGED <<input_script, self, eval_script, it, prev, rerun, RunArgs>>

\* the caller runs the same output script object once more, on a fresh copy of
\* the same input script (input_script is passed by value)
Again ==
    /\ pc = "done"
    /\ ~rerun
    /\ rerun' = TRUE
    /\ pc' = "start"
    /\ input_script' = script(input_script.operations_)
    /\ eval_script' = script(<<>>)
    /\ result' = "none"
    /\ prev' = no_step
    /\ it' = 0
    /\ UNCHANGED <<self, RunArgs>>

\* --------------------------------------------------------------------------
\* Inputs of the composed run
\* --------------------------------------------------------------------------

\* serialized redeem script DEPTH NOT: true on an empty stack only
redeem_bytes == <<opcode.depth, opcode.not_>>

\* a serialized script that ends inside its only push: a one-byte push
\* with no byte after the opcode
truncated_bytes == <<1>>

\* operations the input scripts are made of
InOps ==
    { Op(opcode.zero, <<>>), Op(opcode.special, redeem_bytes),
      Op(opcode.special, truncated_bytes),
      Op(opcode.if_, <<>>), Op(opcode.toaltstack, <<>>),
      Op(opcode.codeseparator, <<>>) }

\* operations the free-form output scripts are made of
OutOps ==
    { Op(opcode.op_1, <<>>), Op(opcode.if_, <<>>), Op(opcode.endif, <<>>),
      Op(opcode.fromaltstack, <<>>), Op(opcode.codeseparator, <<>>) }

\* output scripts of the script_hash shape
script_hash_script(hash) ==
    << Op(opcode.hash160, <<>>), Op(opcode.special, hash),
       Op(opcode.equal, <<>>) >>

P2shOutputs ==
    { script_hash_script(generate_ripemd_hash(redeem_bytes)),
      script_hash_script(generate_ripemd_hash(truncated_bytes)),
      script_hash_script(generate_ripemd_hash(<<>>)) }

InputScripts == SeqUpTo(InOps, MaxInLen)
OutputScripts == SeqUpTo(OutOps, MaxOutLen) \cup P2shOutputs

\* a transaction with one input and one output
simple_tx ==
    [ inputs |-> << [previous_output |-> 0, input_script |-> <<>>,
                     sequence |-> 1] >>,
      outputs |-> << [value |-> 1, output_script |-> <<>>] >> ]

Init ==
    /\ pc = "start"
    /\ input_script \in {script(ops) : ops \in InputScripts}
    /\ self \in {script(ops) : ops \in OutputScripts}
    /\ eval_script = script(<<>>)
    /\ it = 0
    /\ bip16_enabled \in BOOLEAN
    /\ parent_tx = simple_tx
    /\ input_index = 0
    /\ result = "none"
    /\ ecdsa_valid = {}
    /\ ub_check = FALSE
    /\ ub_parse = <<>>
    /\ prev = no_step
    /\ rerun = FALSE
    /\ values = <<>>
    /\ sighash_type = 0
    /\ signature_hash = null_hash
    /\ raw_bytes = <<>>
    /\ read_outside = FALSE
    /\ saved_bytes = <<>>
    /\ name_trip = no_trip

Next ==
    \/ Start
    \/ StepInput
    \/ InputDone
    \/ StepOutput
    \/ OutputDone
    \/ StepEval
    \/ EvalDone
    \/ Again

Spec == Init /\ [][Next]_vars

\* --------------------------------------------------------------------------
\* SpecRun: one script::run(tx, i) of a script object with a preset stack (as
\* eval_script is run), over every opcode after a short prefix
\* --------------------------------------------------------------------------

\* opcode values that no enumerator names
UnnamedCodes == {123, 255}

AllCodes == {opcode[f] : f \in DOMAIN opcode} \cup UnnamedCodes

\* stack items: false, true (and the number 1), a number that is also an
\* encoded public key, the number 1 written in five bytes
Items == {<<>>, <<1>>, <<2>>, <<1, 0, 0, 0, 0>>}

\* the operation of a code as parse_script builds it
op_of(code) == Op(code, IF is_data_push(code) THEN <<1>> ELSE <<>>)

PrefixOps ==
    { Op(opcode.if_, <<>>), Op(opcode.notif, <<>>),
      Op(opcode.toaltstack, <<>>) }

RunScripts ==
    {prefix \o <<op_of(code)>> :
        prefix \in SeqUpTo(PrefixOps, MaxPrefix), code \in AllCodes}

is_signature_opcode(code) ==
    code \in {opcode.checksig, opcode.checksigverify, opcode.checkmultisig,
              opcode.checkmultisigverify}

has_signature_opcode(ops) ==
    \E k \in 1..Len(ops) : is_signature_opcode(ops[k].code)

\* the script codes a signer may have signed for a script: the operations
\* from some position on, with or without the CODESEPARATORs, with or without
\* the pushes of the signature <<1>>
SignedCodes(ops) ==
    LET Kept(op, no_separator, no_signature) ==
            /\ no_separator => op.code # opcode.codeseparator
            /\ no_signature => op.data # <<sighash.all>>
        Part(k, no_separator, no_signature) ==
            LET Test(op) == Kept(op, no_separator, no_signature)
            IN  SelectSeq(SubSeq(ops, k, Len(ops)), Test)
    IN  {Part(k, ns, nd) : k \in 1..Len(ops), ns \in BOOLEAN, nd \in BOOLEAN}

\* the digests a signature may be valid for: the all-zero digest, and the
\* digests with hash type ALL of the script codes above
SignedDigests(ops, tx) ==
    {null_hash} \cup
    {generate_signature_hash(tx, 0, c, sighash.all) : c \in SignedCodes(ops)}

\* what ECDSA verification may accept: nothing, or the signature with an
\* empty body by the key <<2>> over one of these digests
SignedChoices(ops, tx) ==
    {{}} \cup {{<< <<2>>, d, <<>> >>} : d \in SignedDigests(ops, tx)}

\* a stack of 1000 items, as a run that pushed 1000 times leaves it
full_stack == [k \in 1..1000 |-> stack_true_value]

\* the script OP_1 run on that stack
FullStackRuns ==
    {run_reset([script(<<op_of(opcode.op_1)>>) EXCEPT !.stack_ = full_stack])}

\* PICK and ROLL on stacks of distinct items with the numbers 0..3 on top,
\* the number 1 also in two bytes
PickRollRuns ==
    {run_reset([script(<<op_of(code)>>) EXCEPT !.stack_ = push_back(st, n)]) :
        code \in {opcode.pick, opcode.roll},
        st \in SeqUpTo({<<1>>, <<2>>, <<3>>}, MaxStack + 1),
        n \in {<<>>, <<1>>, <<2>>, <<3>>, <<1, 0>>}}

InitRun ==
    /\ pc = "eval"
    /\ input_script = script(<<>>)
    /\ self = script(<<>>)
    /\ eval_script \in
          {run_reset([script(ops) EXCEPT !.stack_ = st]) :
              ops \in RunScripts, st \in SeqUpTo(Items, MaxStack)}
          \cup FullStackRuns \cup PickRollRuns
    /\ it = 1
    /\ bip16_enabled = TRUE
    /\ parent_tx = simple_tx
    /\ input_index = 0
    /\ result = "none"
    /\ ecdsa_valid \in IF has_signature_opcode(eval_script.operations_)
                       THEN SignedChoices(eval_script.operations_, parent_tx)
                       ELSE {{}}
    /\ ub_check \in IF has_signature_opcode(eval_script.operations_)
                    THEN BOOLEAN ELSE {FALSE}
    /\ ub_parse = <<>>
    /\ prev = no_step
    /\ rerun = TRUE
    /\ values = <<>>
    /\ sighash_type = 0
    /\ signature_hash = null_hash
    /\ raw_bytes = <<>>
    /\ read_outside = FALSE
    /\ saved_bytes = <<>>
    /\ name_trip = no_trip

NextRun ==
    \/ StepEval
    \/ EvalDone

SpecRun == InitRun /\ [][NextRun]_vars

\* the loop of script::run and its return are always executed
SpecRunFair == SpecRun /\ WF_vars(NextRun)

\* --------------------------------------------------------------------------
\* SpecSig: one script::run(tx, i) of a script with a signature opcode, on a
\* stack that holds its operands
\* --------------------------------------------------------------------------

\* longest run of operations before the signature opcode
MaxSigPrefix == 2
\* most signatures / public keys on the stack of a multisig opcode
MaxSigs == 2
MaxKeys == 2

\* a transaction with one input and no output
no_output_tx == [simple_tx EXCEPT !.outputs = <<>>]

\* signatures with an empty body: hash type ALL, hash type SINGLE
SigItems == {<<sighash.all>>, <<sighash.single>>}
\* encoded public keys
KeyItems == {<<2>>, <<3>>}

\* CHECKSIG / CHECKSIGVERIFY after NOPs and CODESEPARATORs, followed by
\* nothing, a CODESEPARATOR or a push of the signature <<1>>
ChecksigScripts ==
    {prefix \o <<Op(code, <<>>)>> \o suffix :
        prefix \in SeqUpTo({Op(opcode.nop, <<>>),
                            Op(opcode.codeseparator, <<>>)}, MaxSigPrefix),
        code \in {opcode.checksig, opcode.checksigverify},
        suffix \in SeqUpTo({Op(opcode.codeseparator, <<>>),
                            Op(opcode.special, <<sighash.all>>)}, 1)}

\* their stacks: too short, or a signature below a public key (<<1>> is no
\* encoded public key), or the empty signature that OP_0 pushes
ChecksigStacks ==
    {<<>>, << <<2>> >>}
        \cup {<<sig, key>> : sig \in SigItems \cup {<<>>},
                             key \in {<<2>>, <<1>>}}

\* what check_signature does with an empty signature is undefined
ChecksigRuns ==
    {[ops |-> ops, stack |-> st, tx |-> tx,
      valid |-> SignedChoices(ops, tx),
      ub |-> IF Len(st) = 2 /\ st[1] = <<>> THEN BOOLEAN ELSE {FALSE}] :
        ops \in ChecksigScripts, st \in ChecksigStacks,
        tx \in {simple_tx, no_output_tx}}

MultisigScripts ==
    {prefix \o <<Op(code, <<>>)>> :
        prefix \in {<<>>, <<Op(opcode.codeseparator, <<>>)>>},
        code \in {opcode.checkmultisig, opcode.checkmultisigverify}}

\* their stacks: items below, the signatures, their count, the public keys,
\* their count; or stacks on which read_section fails
MultisigStacks ==
    {below \o sigs \o <<big_number_data(Len(sigs))>>
           \o keys \o <<big_number_data(Len(keys))>> :
        below \in {<<>>, << <<2>> >>},
        sigs \in SeqUpTo(SigItems, MaxSigs),
        keys \in SeqUpTo(KeyItems, MaxKeys)}
    \cup {<<>>, << <<1>> >>, << <<1, 0, 0, 0, 0>> >>, << <<2>>, <<>>, <<2>> >>,
          << <<>>, <<1>>, <<2>>, <<1>> >>}

\* the signatures with an empty body that a key signed over the digest of
\* the multisig operation with hash type ALL
MultisigChoices(ops, tx) ==
    SUBSET {<<key, generate_signature_hash(tx, 0, <<ops[Len(ops)]>>,
                                           sighash.all), <<>> >> :
               key \in KeyItems}

MultisigRuns ==
    {[ops |-> ops, stack |-> st, tx |-> simple_tx,
      valid |-> MultisigChoices(ops, simple_tx), ub |-> BOOLEAN] :
        ops \in MultisigScripts, st \in MultisigStacks}

InitSig ==
    /\ pc = "eval"
    /\ input_script = script(<<>>)
    /\ self = script(<<>>)
    /\ \E r \in ChecksigRuns \cup MultisigRuns :
          /\ eval_script = run_reset([script(r.ops) EXCEPT !.stack_ = r.stack])
          /\ parent_tx = r.tx
          /\ ecdsa_valid \in r.valid
          /\ ub_check \in r.ub
    /\ it = 1
    /\ bip16_enabled = TRUE
    /\ input_index = 0
    /\ result = "none"
    /\ ub_parse = <<>>
    /\ prev = no_step
    /\ rerun = TRUE
    /\ values = <<>>
    /\ sighash_type = 0
    /\ signature_hash = null_hash
    /\ raw_bytes = <<>>
    /\ read_outside = FALSE
    /\ saved_bytes = <<>>
    /\ name_trip = no_trip

NextSig ==
    \/ StepEval
    \/ EvalDone

SpecSig == InitSig /\ [][NextSig]_vars

\* --------------------------------------------------------------------------
\* SpecCast: cast_to_bool applied to a byte string
\* --------------------------------------------------------------------------

CastBytes == {0, 1, 128, 255}

InitCast ==
    /\ pc = "cast"
    /\ values \in SeqUpTo(CastBytes, MaxChunkLen)
    /\ input_script = script(<<>>)
    /\ self = script(<<>>)
    /\ eval_script = script(<<>>)
    /\ it = 0
    /\ bip16_enabled = FALSE
    /\ parent_tx = simple_tx
    /\ input_index = 0
    /\ result = "none"
    /\ ecdsa_valid = {}
    /\ ub_check = FALSE
    /\ ub_parse = <<>>
    /\ prev = no_step
    /\ rerun = TRUE
    /\ sighash_type = 0
    /\ signature_hash = null_hash
    /\ raw_bytes = <<>>
    /\ read_outside = FALSE
    /\ saved_bytes = <<>>
    /\ name_trip = no_trip

\* the cast is applied to values
Cast ==
    /\ pc = "cast"
    /\ result' = bool_result(cast_to_bool(values))
    /\ pc' = "done"
    /\ UNCHANGED <<input_script, self, eval_script, it, prev, rerun, RunArgs>>

NextCast == Cast

SpecCast == InitCast /\ [][NextCast]_vars

\* --------------------------------------------------------------------------
\* SpecHash: generate_signature_hash applied to a transaction, a valid input
\* index, a scriptcode and a hash type
\* --------------------------------------------------------------------------

\* most inputs / outputs of a transaction
MaxTxIn == 3
MaxTxOut == 2

\* a transaction whose inputs and outputs all differ
tx_of(n_in, n_out) ==
    [ inputs |-> [k \in 1..n_in |->
                     [previous_output |-> k,
                      input_script |-> <<Op(opcode.special, <<k>>)>>,
                      sequence |-> k]],
      outputs |-> [k \in 1..n_out |->
                      [value |-> k,
                       output_script |-> <<Op(opcode.special, <<k>>)>>]] ]

Transactions == {tx_of(n_in, n_out) : n_in \in 1..MaxTxIn, n_out \in 0..MaxTxOut}

\* ALL, NONE, SINGLE, a mode no enumerator names, each with and without
\* ANYONE_CAN_PAY
HashTypes ==
    {mode + acp : mode \in {0, sighash.all, sighash.none, sighash.single},
                  acp \in {0, sighash.anyone_can_pay}}

\* the scriptcode handed to generate_signature_hash
hash_script_code == <<Op(opcode.checksig, <<>>)>>

InitHash ==
    /\ pc = "hash"
    /\ parent_tx \in Transactions
    /\ input_index \in 0..(Len(parent_tx.inputs) - 1)
    /\ sighash_type \in HashTypes
    /\ signature_hash = null_hash
    /\ input_script = script(<<>>)
    /\ self = script(<<>>)
    /\ eval_script = script(<<>>)
    /\ it = 0
    /\ bip16_enabled = FALSE
    /\ result = "none"
    /\ ecdsa_valid = {}
    /\ ub_check = FALSE
    /\ ub_parse = <<>>
    /\ prev = no_step
    /\ rerun = TRUE
    /\ values = <<>>
    /\ raw_bytes = <<>>
    /\ read_outside = FALSE
    /\ saved_bytes = <<>>
    /\ name_trip = no_trip

\* generate_signature_hash is called
Hash ==
    /\ pc = "hash"
    /\ signature_hash' = generate_signature_hash(parent_tx, input_index,
                                          hash_script_code, sighash_type)
    /\ pc' = "hashed"
    /\ UNCHANGED <<input_script, self, eval_script, it, bip16_enabled,
                   parent_tx, input_index, result, ecdsa_valid, ub_check,
                   ub_parse, prev, rerun, values, sighash_type, raw_bytes,
                   read_outside, saved_bytes, name_trip>>

NextHash == Hash

SpecHash == InitHash /\ [][NextHash]_vars

\* --------------------------------------------------------------------------
\* SpecParse: parse_script applied to raw bytes, save_script applied to the
\* script it returned
\* --------------------------------------------------------------------------

\* longest raw script
MaxRawLen == 4

\* ZERO, a one-byte direct push, the three PUSHDATA opcodes, BAD_OPERATION,
\* RAW_DATA, a value no enumerator names
RawBytes ==
    {0, 1, opcode.pushdata1, opcode.pushdata2, opcode.pushdata4,
     opcode.bad_operation, opcode.raw_data, 255}

\* scripts a parse that reads outside its input may return
UndefinedParses == {<<>>, <<Op(opcode.pushdata1, <<>>)>>}

\* PUSHDATA2 with the length prefix 521 = 9 + 2 * 256 and 521 bytes of payload
long_push == <<opcode.pushdata2, 9, 2>> \o [k \in 1..521 |-> 0]

InitParse ==
    /\ pc = "parse"
    /\ raw_bytes \in SeqUpTo(RawBytes, MaxRawLen) \cup {long_push}
    /\ ub_parse \in IF parse_reads_outside(raw_bytes) THEN UndefinedParses
                    ELSE {<<>>}
    /\ read_outside = FALSE
    /\ saved_bytes = <<>>
    /\ name_trip = no_trip
    /\ input_script = script(<<>>)
    /\ self = script(<<>>)
    /\ eval_script = script(<<>>)
    /\ it = 0
    /\ bip16_enabled = FALSE
    /\ parent_tx = simple_tx
    /\ input_index = 0
    /\ result = "none"
    /\ ecdsa_valid = {}
    /\ ub_check = FALSE
    /\ prev = no_step
    /\ rerun = TRUE
    /\ values = <<>>
    /\ sighash_type = 0
    /\ signature_hash = null_hash

\* parse_script is called on raw_bytes
Parse ==
    /\ pc = "parse"
    /\ eval_script' = script(parse_script(raw_bytes))
    /\ read_outside' = parse_reads_outside(raw_bytes)
    /\ pc' = "parsed"
    /\ UNCHANGED <<input_script, self, it, bip16_enabled, parent_tx,
                   input_index, result, ecdsa_valid, ub_check, ub_parse, prev,
                   rerun, values, sighash_type, signature_hash, raw_bytes,
                   saved_bytes, name_trip>>

\* save_script is called on the parsed script
Save ==
    /\ pc = "parsed"
    /\ saved_bytes' = save_script(eval_script.operations_)
    /\ pc' = "saved"
    /\ UNCHANGED <<input_script, self, eval_script, it, bip16_enabled,
                   parent_tx, input_index, result, ecdsa_valid, ub_check,
                   ub_parse, prev, rerun, values, sighash_type,
                   signature_hash, raw_bytes, read_outside, name_trip>>

NextParse ==
    \/ Parse
    \/ Save

SpecParse == InitParse /\ [][NextParse]_vars

\* --------------------------------------------------------------------------
\* SpecName: string_to_opcode and opcode_to_string applied one after the
\* other, starting from a string or from an opcode
\* --------------------------------------------------------------------------

\* the argument is a name either function knows or a string neither knows,
\* or any value of the opcode's byte
InitName ==
    /\ \/ /\ pc = "repr"
          /\ name_trip \in {[no_trip EXCEPT !.from = "repr", !.repr = m] :
                                m \in {c[1] : c \in string_opcodes}
                                    \cup {c[2] : c \in opcode_strings}
                                    \cup {"", "return", "bad_operation",
                                          "<none 101>", "IF"}}
       \/ /\ pc = "code"
          /\ name_trip \in {[no_trip EXCEPT !.from = "code", !.code = c] :
                                c \in 0..255}
    /\ input_script = script(<<>>)
    /\ self = script(<<>>)
    /\ eval_script = script(<<>>)
    /\ it = 0
    /\ bip16_enabled = FALSE
    /\ parent_tx = simple_tx
    /\ input_index = 0
    /\ result = "none"
    /\ ecdsa_valid = {}
    /\ ub_check = FALSE
    /\ ub_parse = <<>>
    /\ prev = no_step
    /\ rerun = TRUE
    /\ values = <<>>
    /\ sighash_type = 0
    /\ signature_hash = null_hash
    /\ raw_bytes = <<>>
    /\ read_outside = FALSE
    /\ saved_bytes = <<>>

\* string_to_opcode is called on the string given, or on the name returned
StringToOpcode ==
    /\ \/ /\ pc = "repr"
          /\ name_trip' = [name_trip EXCEPT
                              !.code = string_to_opcode(name_trip.repr)]
          /\ pc' = "repr_coded"
       \/ /\ pc = "code_named"
          /\ name_trip' = [name_trip EXCEPT
                              !.back_code = string_to_opcode(name_trip.repr)]
          /\ pc' = "done"
    /\ UNCHANGED <<input_script, self, eval_script, it, bip16_enabled,
                   parent_tx, input_index, result, ecdsa_valid, ub_check,
                   ub_parse, prev, rerun, values, sighash_type,
                   signature_hash, raw_bytes, read_outside, saved_bytes>>

\* opcode_to_string is called on the opcode given, or on the opcode returned
OpcodeToString ==
    /\ \/ /\ pc = "code"
          /\ name_trip' = [name_trip EXCEPT
                              !.repr = opcode_to_string(name_trip.code)]
          /\ pc' = "code_named"
       \/ /\ pc = "repr_coded"
          /\ name_trip' = [name_trip EXCEPT
                              !.back_repr = opcode_to_string(name_trip.code)]
          /\ pc' = "done"
    /\ UNCHANGED <<input_script, self, eval_script, it, bip16_enabled,
                   parent_tx, input_index, result, ecdsa_valid, ub_check,
                   ub_parse, prev, rerun, values, sighash_type,
                   signature_hash, raw_bytes, read_outside, saved_bytes>>

NextName ==
    \/ StringToOpcode
    \/ OpcodeToString

SpecName == InitName /\ [][NextName]_vars

\* --------------------------------------------------------------------------
\* Properties of the composed run (Spec)
\* --------------------------------------------------------------------------

\* the two executions of the composed run, computed from the arguments
input_run == run_script(script(input_script.operations_), parent_tx, input_index)
output_run ==
    run_script([self EXCEPT !.stack_ = input_run.s.stack_], parent_tx,
               input_index)
true_top(stack) == stack # <<>> /\ cast_to_bool(back(stack))
base_verdict == input_run.ok /\ output_run.ok /\ true_top(output_run.s.stack_)

\* C1: the composed run returns true only if the input script's execution
\* succeeds, the output script's execution on the carried stack succeeds and
\* ends with a non-empty stack whose top casts to true; with BIP16 off, or an
\* output script that is not of type script_hash, it returns true exactly then.
C1_RunVerdict ==
    pc = "done" =>
        /\ result = "true" => base_verdict
        /\ (~bip16_enabled \/ ~is_script_hash_type(self.operations_))
               => (result = "true" <=> base_verdict)

C1_Witness ==
    /\ pc = "done"
    /\ result = "true"
    /\ ~bip16_enabled
    /\ input_script.operations_ # <<>>
    /\ self.operations_ # <<>>
    /\ prev.who = "output"

\* C2: the output script starts on the input script's final stack with an empty
\* alt stack and an empty conditional stack, whatever the input script left in
\* its alt stack; an IF left open by the input script fails the run before any
\* operation of the output script is met.
C2_StackCarry ==
    /\ (pc = "output" /\ it = 1) =>
           /\ self.stack_ = input_run.s.stack_
           /\ self.stack_ = input_script.stack_
           /\ self.alternate_stack_ = <<>>
           /\ self.conditional_stack_ = <<>>
    /\ (pc \notin {"start", "input"} /\ input_script.conditional_stack_ # <<>>)
           => (pc = "done" /\ result = "false" /\ prev.who = "input")

C2_Witness ==
    /\ pc = "output"
    /\ it = 1
    /\ input_script.alternate_stack_ # <<>>
    /\ self.alternate_stack_ = <<>>

\* the opcodes C3 lists as push opcodes
C3_PushCodes ==
    {opcode.zero, opcode.special, opcode.pushdata1, opcode.pushdata2,
     opcode.pushdata4, opcode.negative_1} \cup (opcode.op_1..opcode.op_16)

C3_HasNonPush(ops) == \E k \in 1..Len(ops) : ops[k].code \notin C3_PushCodes

\* C3: with BIP16 on and an output script of the shape
\* [HASH160, SPECIAL(20 bytes), EQUAL], the run returns false for every input
\* script with an operation that is not a push opcode.
C3_PushOnly ==
    ( /\ pc = "done"
      /\ bip16_enabled
      /\ is_script_hash_type(self.operations_)
      /\ C3_HasNonPush(input_script.operations_) )
        => result = "false"

C3_Witness ==
    /\ pc = "done"
    /\ result = "false"
    /\ bip16_enabled
    /\ is_script_hash_type(self.operations_)
    /\ C3_HasNonPush(input_script.operations_)
    /\ prev.who = "output"
    /\ prev.ok
    /\ it > Len(self.operations_)
    /\ true_top(self.stack_)

\* the redeem script's execution, computed from the input script's final stack
redeem_run ==
    LET in_stack == input_run.s.stack_
    IN  run_script([script(parse_script(back(in_stack)))
                       EXCEPT !.stack_ = pop_back(in_stack)],
                   parent_tx, input_index)

\* C4: once the composed run reaches the BIP16 pass (BIP16 on, output type
\* script_hash, push-only input script, both executions passed), it returns
\* true iff the script parsed from the top of the input script's final stack,
\* run on the items below that top, succeeds with a true top.
C4_RedeemVerdict ==
    ( /\ pc = "done"
      /\ bip16_enabled
      /\ is_script_hash_type(self.operations_)
      /\ ~C3_HasNonPush(input_script.operations_)
      /\ base_verdict )
        => (result = "true" <=>
               (redeem_run.ok /\ true_top(redeem_run.s.stack_)))

C4_Witness ==
    /\ pc = "done"
    /\ result = "true"
    /\ prev.who = "eval"
    /\ bip16_enabled
    /\ is_script_hash_type(self.operations_)

\* --------------------------------------------------------------------------
\* Properties of a single execution and of its steps (SpecRun)
\* --------------------------------------------------------------------------

\* the operation the latest step was about, and whether it met a live branch
stepped == prev.at > 0
step_code == prev.s.operations_[prev.at].code
step_live == ~has_failed_branches(prev.s.conditional_stack_)

\* C5: an execution that succeeds leaves the conditional stack empty, a script
\* that ends with a pending IF/NOTIF fails, and ELSE or ENDIF on an empty
\* conditional stack fails the step.
C5_ConditionalsClosed ==
    /\ (pc = "done" /\ result = "true")
           => eval_script.conditional_stack_ = <<>>
    /\ (pc = "done" /\ eval_script.conditional_stack_ # <<>>)
           => result = "false"
    /\ (stepped /\ step_code \in {opcode.else_, opcode.endif}
            /\ prev.s.conditional_stack_ = <<>>)
           => ~prev.ok

C5_Witness ==
    /\ pc = "done"
    /\ result = "true"
    /\ Len(eval_script.operations_) = 2
    /\ eval_script.operations_[1].code = opcode.if_
    /\ eval_script.operations_[2].code = opcode.endif

\* the condition opcodes IF, NOTIF, ELSE, ENDIF
C6_ConditionCodes == {opcode.if_, opcode.notif, opcode.else_, opcode.endif}

\* C6: while some conditional flag is false, a step on an operation other than
\* IF, NOTIF, ELSE, ENDIF succeeds and changes nothing of the script object;
\* IF and NOTIF met there push one flag and leave the stack alone.
C6_SkippedStep ==
    (stepped /\ ~step_live) =>
        /\ step_code \notin C6_ConditionCodes
               => (prev.ok /\ eval_script = prev.s)
        /\ step_code \in {opcode.if_, opcode.notif}
               => /\ prev.ok
                  /\ eval_script.stack_ = prev.s.stack_
                  /\ Len(eval_script.conditional_stack_)
                         = Len(prev.s.conditional_stack_) + 1

C6_Witness ==
    /\ stepped
    /\ ~step_live
    /\ step_code = opcode.reserved
    /\ prev.s.stack_ # <<>>
    /\ prev.ok
    /\ eval_script = prev.s

\* C7 as claimed: every CODESEPARATOR met sets codehash_begin to its own
\* position, also inside a non-executing branch.
C7_Original ==
    (stepped /\ step_code = opcode.codeseparator)
        => eval_script.codehash_begin_ = prev.at

\* C7 as amended: a CODESEPARATOR met in a live branch sets codehash_begin to
\* its own position; inside a non-executing branch it is skipped like any other
\* operation and codehash_begin keeps its value.
C7_SeparatorLiveOnly ==
    (stepped /\ step_code = opcode.codeseparator) =>
        /\ prev.ok
        /\ step_live => eval_script.codehash_begin_ = prev.at
        /\ ~step_live => eval_script.codehash_begin_ = prev.s.codehash_begin_

C7_Witness ==
    /\ stepped
    /\ step_code = opcode.codeseparator
    /\ ~step_live
    /\ prev.at = 2
    /\ eval_script.codehash_begin_ = 1

\* the stack items an opcode needs (FROMALTSTACK: alt stack items)
C9_Needs(code) ==
    IF code \in {opcode.verify, opcode.toaltstack, opcode.fromaltstack,
                 opcode.ifdup, opcode.drop, opcode.dup, opcode.size,
                 opcode.not_, opcode.sha256, opcode.hash160, opcode.if_,
                 opcode.notif}
    THEN 1
    ELSE IF code \in {opcode.nip, opcode.over, opcode.pick, opcode.roll,
                      opcode.boolor, opcode.min, opcode.equal,
                      opcode.equalverify, opcode.add,
                      opcode.greaterthanorequal, opcode.checksig,
                      opcode.checksigverify, opcode.checkmultisig,
                      opcode.checkmultisigverify}
    THEN 2
    ELSE 0

C9_Available(s, code) ==
    IF code = opcode.fromaltstack THEN Len(s.alternate_stack_)
    ELSE Len(s.stack_)

\* C9 as claimed: every opcode executed in a live branch with fewer stack items
\* than it needs fails the step, CHECKSIG and CHECKMULTISIG included.
C9_Original ==
    (stepped /\ step_live /\ C9_Available(prev.s, step_code) < C9_Needs(step_code))
        => ~prev.ok

\* the opcodes that cast stack items to numbers
C11_NumericCodes ==
    {opcode.not_, opcode.boolor, opcode.min, opcode.add,
     opcode.greaterthanorequal, opcode.pick, opcode.roll}

\* the stack items an opcode casts: the top for NOT, PICK and ROLL, the top
\* two for the binary opcodes
C11_Operands(s, code) ==
    LET n == Len(s.stack_)
        depth == IF code \in {opcode.not_, opcode.pick, opcode.roll} THEN 1
                 ELSE 2
    IN  {s.stack_[k] : k \in {j \in 1..n : j > n - depth}}

\* C11: the numeric cast fails for every byte string longer than 4 bytes, and
\* NOT, BOOLOR, MIN, ADD, GREATERTHANOREQUAL, PICK, ROLL executed in a live
\* branch fail the step when one of their numeric operands is longer than 4
\* bytes, whatever the bytes are.
C11_LongOperandFails ==
    stepped =>
        /\ \A k \in 1..Len(prev.s.stack_) :
               Len(prev.s.stack_[k]) > 4
                   => ~cast_to_big_number(prev.s.stack_[k]).ok
        /\ (step_live /\ step_code \in C11_NumericCodes
                /\ \E b \in C11_Operands(prev.s, step_code) : Len(b) > 4)
               => ~prev.ok

C11_Witness ==
    /\ stepped
    /\ step_live
    /\ step_code = opcode.add
    /\ prev.s.stack_ = << <<1, 0, 0, 0, 0>>, <<1>> >>
    /\ ~prev.ok

\* the opcodes that push a truth value
C12_BooleanCodes ==
    {opcode.equal, opcode.not_, opcode.boolor, opcode.greaterthanorequal,
     opcode.checksig, opcode.checkmultisig}

\* C12: the item pushed by EQUAL, NOT, BOOLOR, GREATERTHANOREQUAL,
\* CHECKSIG or CHECKMULTISIG is exactly [0x01] or the empty byte string, for
\* all operand values.
C12_BooleanEncoding ==
    (stepped /\ step_live /\ prev.ok /\ step_code \in C12_BooleanCodes)
        => /\ eval_script.stack_ # <<>>
           /\ top(eval_script) \in {<<1>>, <<>>}

C12_Witness ==
    /\ stepped
    /\ step_live
    /\ prev.ok
    /\ step_code = opcode.equal
    /\ prev.s.stack_ = << <<2>>, <<1>> >>
    /\ eval_script.stack_ = << <<>> >>

\* C26: PICK and ROLL executed in a live branch on a stack whose top is a
\* number n >= 0 of at most 4 bytes succeed exactly when there is an item
\* below n and n is smaller than the size of the stack below n; PICK then
\* leaves that stack with a copy of its item n positions below the top pushed
\* on it, ROLL leaves it with that item moved to the top and the other items
\* in their order; on a stack of fewer than two items both fail.
C26_PickRoll ==
    (stepped /\ step_live /\ step_code \in {opcode.pick, opcode.roll})
        => LET before == prev.s.stack_
               after == eval_script.stack_
               rest == pop_back(before)
               size == Len(rest)
               n == big_number_set_data(back(before))
               at == size - n
           IN  /\ Len(before) < 2 => ~prev.ok
               /\ (before # <<>> /\ Len(back(before)) <= 4 /\ n >= 0) =>
                      /\ prev.ok <=> (size >= 1 /\ n < size)
                      /\ (prev.ok /\ step_code = opcode.pick) =>
                             /\ Len(after) = size + 1
                             /\ after[size + 1] = rest[at]
                             /\ \A k \in 1..size : after[k] = rest[k]
                             /\ n = 0 => after = push_back(rest, back(rest))
                      /\ (prev.ok /\ step_code = opcode.roll) =>
                             /\ Len(after) = size
                             /\ after[size] = rest[at]
                             /\ \A k \in 1..(at - 1) : after[k] = rest[k]
                             /\ \A k \in at..(size - 1) :
                                    after[k] = rest[k + 1]
                             /\ n = 0 => after = rest

C26_Witness ==
    /\ stepped
    /\ step_live
    /\ prev.ok
    /\ step_code = opcode.roll
    /\ prev.s.stack_ = << <<1>>, <<2>>, <<3>>, <<2>> >>
    /\ eval_script.stack_ = << <<2>>, <<3>>, <<1>> >>

\* every step of an execution: the operation at the iterator is dispatched and
\* either succeeds, and the iterator moves to the next operation, or fails,
\* and the execution ends with false; after the last operation it ends
C22_Dispatch ==
    /\ pc = "eval"
    /\ \/ /\ it <= Len(eval_script.operations_)
          /\ prev'.at = it
          /\ prev'.ok
          /\ it' = it + 1
          /\ pc' = "eval"
          /\ eval_script'.operations_ = eval_script.operations_
       \/ /\ it <= Len(eval_script.operations_)
          /\ prev'.at = it
          /\ ~prev'.ok
          /\ pc' = "done"
          /\ result' = "false"
       \/ /\ it = Len(eval_script.operations_) + 1
          /\ pc' = "done"
          /\ UNCHANGED <<eval_script, prev>>

\* C22: every execution terminates: the operations are dispatched in sequence
\* order, each at most once, never backwards; the first failed step ends the
\* execution and nothing is dispatched after it, so at most |operations| steps
\* are dispatched.
C22_Terminates ==
    /\ [][C22_Dispatch]_vars
    /\ <>(pc = "done")

C22_Witness ==
    /\ pc = "done"
    /\ result = "false"
    /\ Len(eval_script.operations_) = 2
    /\ prev.at = 1
    /\ ~prev.ok
    /\ it = 1

\* C21 as claimed, stack part: an execution whose stack would grow beyond 1000
\* items fails, so no state of a successful evaluation has more than 1000
\* stack items.
C21_Original ==
    (pc = "done" /\ result = "true") => Len(eval_script.stack_) <= 1000

\* --------------------------------------------------------------------------
\* The cursor codehash_begin_ across the composed run (Spec)
\* --------------------------------------------------------------------------

\* the script object the latest step ran
stepped_object ==
    IF prev.who = "input" THEN input_script
    ELSE IF prev.who = "output" THEN self
    ELSE eval_script

\* C8 as claimed: codehash_begin is not reset when execution passes from the
\* input script to the output script.
C8_Original ==
    (pc = "output" /\ it = 1)
        => self.codehash_begin_ = input_script.codehash_begin_

\* C8 as amended: every script execution of the composed run (input script,
\* output script, redeem script) starts with the cursor of the script it runs
\* at that script's first operation, and within an execution the cursor changes
\* only when a CODESEPARATOR is executed in a live branch.
C8_CursorPerExecution ==
    /\ (pc = "input" /\ it = 1) => input_script.codehash_begin_ = 1
    /\ (pc = "output" /\ it = 1) => self.codehash_begin_ = 1
    /\ (pc = "eval" /\ it = 1) => eval_script.codehash_begin_ = 1
    /\ (stepped /\ stepped_object.codehash_begin_ # prev.s.codehash_begin_)
           => /\ step_code = opcode.codeseparator
              /\ step_live
              /\ stepped_object.codehash_begin_ = prev.at

C8_Witness ==
    /\ pc = "output"
    /\ it = 1
    /\ input_script.codehash_begin_ = 2
    /\ self.codehash_begin_ = 1
    /\ rerun

\* --------------------------------------------------------------------------
\* Properties of the boolean cast (SpecCast)
\* --------------------------------------------------------------------------

C10_NegativeZero(b) ==
    /\ b # <<>>
    /\ b[Len(b)] = 128
    /\ \A k \in 1..(Len(b) - 1) : b[k] = 0

C10_Expected(b) ==
    (\E k \in 1..Len(b) : b[k] # 0) /\ ~C10_NegativeZero(b)

\* C10: cast_to_bool(b) is true iff b has a non-zero byte and is not a negative
\* zero; false for [], [0x80], [0x00, 0x80]; true for [0x01], [0x80, 0x00],
\* [0x80, 0x80].
C10_CastToBool ==
    /\ pc = "done" => (result = "true" <=> C10_Expected(values))
    /\ (pc = "done" /\ values \in {<<>>, <<128>>, <<0, 128>>})
           => result = "false"
    /\ (pc = "done" /\ values \in {<<1>>, <<128, 0>>, <<128, 128>>})
           => result = "true"

C10_Witness ==
    /\ pc = "done"
    /\ values = <<0, 128>>
    /\ result = "false"

\* --------------------------------------------------------------------------
\* Properties of the signature opcodes (SpecSig)
\* --------------------------------------------------------------------------

\* the latest step executed CHECKSIG or CHECKSIGVERIFY on a public key and a
\* non-empty signature
checksig_step ==
    /\ stepped
    /\ step_live
    /\ step_code \in {opcode.checksig, opcode.checksigverify}
    /\ Len(prev.s.stack_) >= 2
    /\ prev.s.stack_[Len(prev.s.stack_) - 1] # <<>>

step_pubkey == prev.s.stack_[Len(prev.s.stack_)]
step_signature == prev.s.stack_[Len(prev.s.stack_) - 1]
\* the stack below the two operands
step_rest == SubSeq(prev.s.stack_, 1, Len(prev.s.stack_) - 2)

\* C14: for hash mode SINGLE with input index i >= |outputs| the digest is the
\* all-zero digest and the signature check is false whatever ECDSA
\* verification accepts: CHECKSIG pushes false and the execution goes on to
\* the next operation, CHECKSIGVERIFY fails the step.
C14_SingleOutOfRange ==
    (checksig_step /\ back(step_signature) % 32 = sighash.single
        /\ input_index >= Len(parent_tx.outputs))
    => /\ \A c \in SignedCodes(prev.s.operations_) :
              generate_signature_hash(parent_tx, input_index, c,
                                      back(step_signature)) = null_hash
       /\ step_code = opcode.checksig
              => /\ prev.ok
                 /\ eval_script.stack_ = push_back(step_rest, <<>>)
                 /\ it = prev.at + 1
       /\ step_code = opcode.checksigverify
              => /\ ~prev.ok
                 /\ pc = "done"
                 /\ result = "false"

C14_Witness ==
    /\ checksig_step
    /\ step_code = opcode.checksig
    /\ parent_tx = no_output_tx
    /\ step_signature = <<sighash.single>>
    /\ step_pubkey = <<2>>
    /\ ecdsa_valid = {<< <<2>>, null_hash, <<>> >>}
    /\ prev.ok
    /\ top(eval_script) = <<>>
    /\ it = prev.at + 1

\* the position of the last CODESEPARATOR executed before the latest step, or
\* the first operation
C16_Begin ==
    LET separators == {k \in 1..(prev.at - 1) :
                          prev.s.operations_[k].code = opcode.codeseparator}
    IN  IF separators = {} THEN 1
        ELSE CHOOSE k \in separators : \A j \in separators : j <= k

\* the operations from C16_Begin on, in their order, that are no
\* CODESEPARATOR and whose data is not the signature
C16_ScriptCode ==
    LET Kept(op) == op.code # opcode.codeseparator /\ op.data # step_signature
    IN  SelectSeq(SubSeq(prev.s.operations_, C16_Begin,
                         Len(prev.s.operations_)), Kept)

\* whether the latest CHECKSIG(VERIFY) found the signature valid
C16_Verified ==
    IF step_code = opcode.checksig THEN top(eval_script) = stack_true_value
    ELSE prev.ok

\* C16: the signature checked by CHECKSIG(VERIFY) is verified over the digest
\* of the script code made of the script's operations from codehash_begin
\* (the last executed CODESEPARATOR, or the first operation) to the end, in
\* their order, without the CODESEPARATORs and without the operations whose
\* data equals the signature; no operation before codehash_begin is in it.
C16_ScriptCodeUsed ==
    (checksig_step /\ set_public_key(step_pubkey))
    => LET digest == generate_signature_hash(parent_tx, input_index,
                         C16_ScriptCode, back(step_signature))
       IN  /\ prev.s.codehash_begin_ = C16_Begin
           /\ C16_Verified <=>
                  /\ digest # null_hash
                  /\ <<step_pubkey, digest, pop_back(step_signature)>>
                         \in ecdsa_valid

C16_Witness ==
    /\ checksig_step
    /\ prev.s.operations_ =
           << Op(opcode.nop, <<>>), Op(opcode.codeseparator, <<>>),
              Op(opcode.checksig, <<>>), Op(opcode.special, <<sighash.all>>) >>
    /\ prev.at = 3
    /\ step_signature = <<sighash.all>>
    /\ step_pubkey = <<2>>
    /\ C16_ScriptCode = <<Op(opcode.checksig, <<>>)>>
    /\ top(eval_script) = stack_true_value

\* the count on top of a stack, and whether the stack holds that many items
\* below it
section_count(stack) == big_number_uint32(big_number_set_data(back(stack)))
section_fits(stack) ==
    /\ stack # <<>>
    /\ Len(back(stack)) <= 4
    /\ section_count(stack) <= Len(stack) - 1

\* the stack of the latest step: N and the N public keys on top, M and the M
\* signatures below them
step_keys_fit == section_fits(prev.s.stack_)
step_N == section_count(prev.s.stack_)
step_below_keys == SubSeq(prev.s.stack_, 1, Len(prev.s.stack_) - step_N - 1)
step_M == section_count(step_below_keys)
step_popped_keys ==
    [k \in 1..step_N |-> prev.s.stack_[Len(prev.s.stack_) - k]]
step_popped_signatures ==
    [k \in 1..step_M |-> step_below_keys[Len(step_below_keys) - k]]

\* the latest step executed CHECKMULTISIG or CHECKMULTISIGVERIFY on a stack
\* that holds both sections
multisig_step ==
    /\ stepped
    /\ step_live
    /\ step_code \in {opcode.checkmultisig, opcode.checkmultisigverify}
    /\ step_keys_fit
    /\ section_fits(step_below_keys)

\* whether the latest CHECKMULTISIG(VERIFY) succeeded
multisig_verified ==
    IF step_code = opcode.checkmultisig
    THEN prev.ok /\ top(eval_script) = stack_true_value
    ELSE prev.ok

\* the script code of the latest multisig step
multisig_script_code ==
    script_code_from(prev.s.operations_, prev.s.codehash_begin_,
        {step_popped_signatures[k] : k \in 1..step_M})

\* C17 as claimed: CHECKMULTISIG(VERIFY) on at least one public key succeeds
\* only if the signatures, in the order they were popped, are verified by
\* public keys at strictly increasing positions of the popped key list, so
\* that no public key satisfies two signatures.
C17_Original ==
    (multisig_step /\ step_N >= 1 /\ multisig_verified)
    => \E f \in [1..step_M -> 1..step_N] :
          /\ \A i \in 1..step_M : \A j \in 1..step_M :
                 i < j => f[i] < f[j]
          /\ \A i \in 1..step_M :
                 check_signature(step_popped_signatures[i],
                                 step_popped_keys[f[i]],
                                 multisig_script_code, parent_tx, input_index)

\* C18: CHECKMULTISIG(VERIFY) with a key count N and a signature count M
\* removes exactly N+M+2 items (N, the N keys, M, the M signatures) and no
\* item below them; CHECKMULTISIG then pushes its result; every item further
\* down keeps its value and position.
C18_MultisigFrame ==
    multisig_step
    => LET rest == SubSeq(prev.s.stack_, 1,
                          Len(prev.s.stack_) - (step_N + step_M + 2))
       IN  IF step_code = opcode.checkmultisig
           THEN /\ prev.ok
                /\ eval_script.stack_ \in {push_back(rest, <<1>>),
                                           push_back(rest, <<>>)}
           ELSE eval_script.stack_ = rest

C18_Witness ==
    /\ multisig_step
    /\ step_code = opcode.checkmultisig
    /\ prev.s.stack_ = << <<2>>, <<1>>, <<1>>, <<3>>, <<2>>, <<2>> >>
    /\ step_N = 2
    /\ step_M = 1
    /\ eval_script.stack_ = << <<2>>, <<1>> >>

\* C28 as claimed: CHECKMULTISIG(VERIFY) with a public key count of 0 and at
\* least one signature yields a failed check: no element of the empty key
\* list is read, so nothing but false can come out.
C28_Original ==
    (multisig_step /\ step_N = 0 /\ step_M >= 1) => ~multisig_verified

\* C29 as claimed: a signature check on an empty signature yields false:
\* CHECKSIG pushes false and CHECKSIGVERIFY fails on an empty signature, and
\* CHECKMULTISIG(VERIFY) on at least one public key yields a failed check
\* when one of its signatures is empty.
C29_Original ==
    /\ (stepped /\ step_live
            /\ step_code \in {opcode.checksig, opcode.checksigverify}
            /\ Len(prev.s.stack_) >= 2 /\ step_signature = <<>>)
           => ~C16_Verified
    /\ (multisig_step /\ step_N >= 1
            /\ \E i \in 1..step_M : step_popped_signatures[i] = <<>>)
           => ~multisig_verified

\* --------------------------------------------------------------------------
\* Properties of generate_signature_hash (SpecHash)
\* --------------------------------------------------------------------------

hash_mode == sighash_type % 32
anyone_can_pay == (sighash_type \div 128) % 2 = 1
blank_output == [value |-> all_ones_value, output_script |-> <<>>]

\* the call the claims about SINGLE in range are about
C13_SingleInRange ==
    /\ pc = "hashed"
    /\ hash_mode = sighash.single
    /\ ~anyone_can_pay
    /\ input_index < Len(parent_tx.outputs)

\* C13 as claimed: for SINGLE with index i < |outputs| the hashed transaction
\* has exactly i+1 outputs, outputs 0..i-1 are {all-ones, empty script},
\* output i keeps its value and script, every input other than i has sequence
\* 0 and input i keeps its sequence.
C13_Original ==
    C13_SingleInRange =>
        /\ ~signature_hash.null
        /\ Len(signature_hash.tx.outputs) = input_index + 1
        /\ \A k \in 1..input_index :
               signature_hash.tx.outputs[k] = blank_output
        /\ signature_hash.tx.outputs[input_index + 1]
               = parent_tx.outputs[input_index + 1]
        /\ Len(signature_hash.tx.inputs) = Len(parent_tx.inputs)
        /\ \A k \in 1..Len(parent_tx.inputs) :
               signature_hash.tx.inputs[k].sequence
                   = IF k = input_index + 1 THEN parent_tx.inputs[k].sequence
                     ELSE 0

\* C15 as claimed: for a valid input index i and a hash type with the
\* ANYONE_CAN_PAY bit the hashed transaction has exactly one input, the
\* original inputs[i] with its script replaced by the scriptcode, and the
\* all-zero digest is returned only for SINGLE with i >= |outputs|.
C15_Original ==
    (pc = "hashed" /\ anyone_can_pay)
    => /\ signature_hash.null
              <=> (hash_mode = sighash.single
                      /\ input_index >= Len(parent_tx.outputs))
       /\ ~signature_hash.null
              => signature_hash.tx.inputs =
                     << [parent_tx.inputs[input_index + 1]
                            EXCEPT !.input_script = hash_script_code] >>

\* the composed run of the same input script, output script, transaction and
\* input index with the other value of bip16_enabled
C27_OtherRun ==
    run_composed(script(input_script.operations_), script(self.operations_),
                 parent_tx, input_index, ~bip16_enabled)

\* C27: a composed run that returns true with BIP16 enabled returns true on
\* the same arguments with BIP16 disabled (so a run that returns false with
\* BIP16 disabled returns false with BIP16 enabled), and for an output script
\* that is not of type script_hash both return the same value.
C27_OnlyRestricts ==
    (pc = "done" /\ ~rerun)
        => /\ (bip16_enabled /\ result = "true") => C27_OtherRun
           /\ (~bip16_enabled /\ result = "false") => ~C27_OtherRun
           /\ type(self.operations_) # "script_hash"
                  => (result = "true" <=> C27_OtherRun)

\* the BIP16 pass ran and succeeded
C27_Witness ==
    /\ pc = "done"
    /\ ~rerun
    /\ bip16_enabled
    /\ is_script_hash_type(self.operations_)
    /\ prev.who = "eval"
    /\ result = "true"
    /\ C27_OtherRun

\* C25 as claimed: when the BIP16 pass applies and the bytes on top of the
\* input script's final stack end inside a push, the composed run fails,
\* whatever lies below them.
C25_Original ==
    (pc = "done" /\ bip16_applies(bip16_enabled, self.operations_)
        /\ input_script.stack_ # <<>>
        /\ parse_from(back(input_script.stack_), 1).status = "premature")
        => result = "false"

\* --------------------------------------------------------------------------
\* Properties of parse_script and save_script (SpecParse)
\* --------------------------------------------------------------------------

\* C19 as claimed: for every raw byte string x for which parse_script(x) is a
\* non-empty script (and the parse stays inside x), save_script of the parsed
\* script is x, whatever opcode bytes x contains.
C19_Original ==
    (pc = "saved" /\ ~read_outside /\ eval_script.operations_ # <<>>)
        => saved_bytes = raw_bytes

\* position k of raw starts an operation whose length prefix or payload
\* extends past the end of raw
C20_EndsEarly(raw, k) ==
    LET width == IF raw[k] = opcode.pushdata1 THEN 1
                 ELSE IF raw[k] = opcode.pushdata2 THEN 2
                 ELSE IF raw[k] = opcode.pushdata4 THEN 4
                 ELSE 0
        payload == IF raw[k] <= 75 THEN raw[k]
                   ELSE IF width > 0 /\ k + width <= Len(raw)
                   THEN cast_chunk(SubSeq(raw, k + 1, k + width))
                   ELSE 0
    IN  payload > Len(raw) - k - width

\* the operation starts of raw, walked from position k: whether one of them
\* ends early
RECURSIVE C20_Premature(_, _)
C20_Premature(raw, k) ==
    IF k > Len(raw) THEN FALSE
    ELSE IF C20_EndsEarly(raw, k) THEN TRUE
    ELSE LET width == IF raw[k] = opcode.pushdata1 THEN 1
                      ELSE IF raw[k] = opcode.pushdata2 THEN 2
                      ELSE IF raw[k] = opcode.pushdata4 THEN 4
                      ELSE 0
             payload == IF raw[k] <= 75 THEN raw[k]
                        ELSE IF width > 0
                        THEN cast_chunk(SubSeq(raw, k + 1, k + width))
                        ELSE 0
         IN  C20_Premature(raw, k + width + payload + 1)

\* C21 as claimed, parse part: a push whose payload is longer than 520 bytes is
\* rejected at parse time, so every parsed push payload has at most 520 bytes.
C21_ParsedPayloads ==
    (pc \in {"parsed", "saved"} /\ ~read_outside)
        => \A k \in 1..Len(eval_script.operations_) :
               Len(eval_script.operations_[k].data) <= 520

\* C20 as claimed: for every raw byte string in which a push ends prematurely
\* (payload or length prefix past the end of the input) parse_script returns
\* the empty script and reads no byte at or after the end of the input.
C20_Original ==
    (pc \in {"parsed", "saved"} /\ C20_Premature(raw_bytes, 1))
        => /\ eval_script.operations_ = <<>>
           /\ ~read_outside

\* the encoding of one operation: the opcode byte (the push length for
\* SPECIAL), the little-endian length field of PUSHDATA1/2/4, the data
C24_Encoding(op) ==
    LET size == Len(op.data)
        first == IF op.code = opcode.special THEN size % 256 ELSE op.code % 256
        field == IF op.code = opcode.pushdata1 THEN <<size % 256>>
                 ELSE IF op.code = opcode.pushdata2
                     THEN <<size % 256, (size \div 256) % 256>>
                 ELSE IF op.code = opcode.pushdata4
                     THEN <<size % 256, (size \div 256) % 256,
                            (size \div 65536) % 256,
                            (size \div 16777216) % 256>>
                 ELSE <<>>
    IN  <<first>> \o field \o op.data

RECURSIVE C24_Concatenation(_)
C24_Concatenation(operations) ==
    IF operations = <<>> THEN <<>>
    ELSE C24_Encoding(Head(operations)) \o C24_Concatenation(Tail(operations))

\* C24 as claimed: save_script returns the bare payload only for a script
\* that is a single RAW_DATA operation; for every other script, also one that
\* starts with RAW_DATA and has further operations, it returns the
\* concatenation of the encodings of all operations.
C24_Original ==
    pc = "saved"
        => LET operations == eval_script.operations_
           IN  IF Len(operations) = 1
                      /\ operations[1].code = opcode.raw_data
               THEN saved_bytes = operations[1].data
               ELSE saved_bytes = C24_Concatenation(operations)

\* --------------------------------------------------------------------------
\* Properties of the opcode names (SpecName)
\* --------------------------------------------------------------------------

\* the opcodes other than BAD_OPERATION that string_to_opcode returns
C23_NamedCodes ==
    {c[2] : c \in string_opcodes} \ {opcode.bad_operation}

\* C23 as claimed: for every string m that string_to_opcode maps to an opcode
\* other than BAD_OPERATION, opcode_to_string(string_to_opcode(m)) = m, and
\* for every such opcode c, string_to_opcode(opcode_to_string(c)) = c.
C23_Original ==
    /\ (pc = "done" /\ name_trip.from = "repr"
            /\ name_trip.code # opcode.bad_operation)
           => name_trip.back_repr = name_trip.repr
    /\ (pc = "done" /\ name_trip.from = "code"
            /\ name_trip.code \in C23_NamedCodes)
           => name_trip.back_code = name_trip.code

====
